---- MODULE Spec2Model ----
(***************************************************************************)
(* A model of evergreen-ci/pail's concurrent sync engine                   *)
(* (parallelBucketImpl.Push / Pull), of its batched move                   *)
(* (Bucket.MoveObjects) and of its credential cache                        *)
(* (seededCredentialProvider.Retrieve, createAssumeRoleCacheKey).          *)
(*                                                                         *)
(* The specifications of the module:                                       *)
(*   Spec       one call of parallelBucketImpl.Pull with its goroutines    *)
(*   PushSpec   one call of parallelBucketImpl.Push with its goroutines    *)
(*   SyncSpec   a Push or a Pull, and a Pull that follows a Push           *)
(*   FairSpec   a Pull whose goroutines are scheduled fairly               *)
(*   CredSpec   goroutines calling Retrieve on the process-wide cache      *)
(*   SeededSpec the same on a cache that was seeded                        *)
(*   KeySpec    calls of createAssumeRoleCacheKey                          *)
(*   MoveSpec   one call of Bucket.MoveObjects                             *)
(*   S3Spec     Writer, Put and Get calls of the transfer engines          *)
(*   RuleSpec   calls of FindMatchingRule                                  *)
(***************************************************************************)
EXTENDS Integers, Sequences, FiniteSets, Bags, TLC

VARIABLES
    \* ---- parallelBucketImpl and the arguments of the call ----
    size,           \* b.size: number of workers
    deleteOnSync,   \* b.deleteOnSync
    dryRun,         \* b.dryRun
    local,          \* the call's local path
    remote,         \* the call's remote path
    ctxDone,        \* the call's context has been canceled
    catcher,        \* grip.NewBasicCatcher(): the bag of errors added so far
    mainPc,         \* position of the calling goroutine
    result,         \* the error the call returned (EmptyBag is nil)
    wpc,            \* position of each worker goroutine
    witem,          \* the item / file name each worker holds
    \* ---- Pull ----
    listing,        \* the items the remote listing holds, in iteration order
    iterIdx,        \* how many items the iterator has produced
    iterErr,        \* iter.Err() is non-nil
    prodPc,         \* position of the listing producer goroutine
    prodItem,       \* the item the producer is sending
    itemsClosed,    \* close(items) has run
    toDeleteClosed, \* close(toDelete) has run
    delPc,          \* position of the deleter goroutine
    keys,           \* the deleter's key list
    dlStarted,      \* bag of Download calls issued: [key, local]
    dlReturned,     \* bag of Download calls returned: [key, local, ok]
    rmCalls,        \* the key lists RemoveMany was called with, in order
    \* ---- Push ----
    files,          \* what walkLocalTree returned
    inCh,           \* the buffered channel `in`: file names not yet received
    err,            \* the variable `err` of Push, shared by every worker
    upStarted,      \* bag of Upload calls issued: [key, local]
    upReturned,     \* bag of Upload calls returned: [key, local, ok]
    localRemoved,   \* how many times os.RemoveAll(local) ran
    \* ---- credential cache ----
    credsCache,      \* the map credsCache: cache key -> cached credentials
    credsCacheMutex, \* the goroutine holding credsCacheMutex, 0 when free
    now,             \* the clock time.Now() reads
    gpc,             \* position of each goroutine calling Retrieve
    call,            \* each goroutine's Retrieve call: receiver, locals, result
    \* ---- what the calls act on ----
    tree,            \* the local file system: path -> content of the file
    store,           \* the bucket: key -> content of the object
    op,              \* the call under way: "push", "pull", "retrieve", ...
    \* ---- cache keys ----
    keyCall,         \* two createAssumeRoleCacheKey calls: arguments, results
    \* ---- MoveObjects ----
    move,            \* one MoveObjects call: arguments, buckets, position
    s3,              \* the object store and the Writer, Put and Get calls on it
    ruleCall         \* one FindMatchingRule call: arguments, position, result

syncVars == <<size, deleteOnSync, dryRun, local, remote, ctxDone, catcher,
              mainPc, result, wpc, witem>>
pullVars == <<listing, iterIdx, iterErr, prodPc, prodItem, itemsClosed,
              toDeleteClosed, delPc, keys, dlStarted, dlReturned, rmCalls>>
pushVars == <<files, inCh, err, upStarted, upReturned, localRemoved>>
credVars == <<credsCache, credsCacheMutex, now, gpc, call>>
fsVars == <<tree, store>>
otherVars == <<s3, ruleCall>>
restVars == <<keyCall, move, otherVars>>

(***************************************************************************)
(* Bounds of the model.                                                    *)
(***************************************************************************)
MaxWorkers == 2
MaxItems == 2
MaxGoroutines == 2
MaxTime == 2
MaxLen == 2
MaxKeys == 3
MaxBatchSize == 2
MaxPayload == 1
MaxPartSize == 1
MaxRules == 2

Workers == 1..size

(***************************************************************************)
(* Paths: a path is its list of elements and whether it is rooted.         *)
(* "." is the relative path with no element.                               *)
(***************************************************************************)
P(abs, segs) == [abs |-> abs, segs |-> segs]

RECURSIVE CleanSegs(_, _, _)
\* filepath.Clean on the element list: ".." removes the element before it,
\* is dropped at the root, and is kept at the front of a relative path.
CleanSegs(abs, segs, acc) ==
    IF segs = <<>> THEN acc
    ELSE LET s == Head(segs) IN
         IF s = ".."
         THEN IF acc # <<>> /\ acc[Len(acc)] # ".."
              THEN CleanSegs(abs, Tail(segs), SubSeq(acc, 1, Len(acc) - 1))
              ELSE IF abs THEN CleanSegs(abs, Tail(segs), acc)
                          ELSE CleanSegs(abs, Tail(segs), Append(acc, ".."))
         ELSE CleanSegs(abs, Tail(segs), Append(acc, s))

Clean(p) == P(p.abs, CleanSegs(p.abs, p.segs, <<>>))

IsEmptyPath(p) == ~p.abs /\ p.segs = <<>>

\* filepath.Join(a, b): empty elements are ignored, the rest is joined with
\* the separator and cleaned; the result is rooted iff its first element is.
Join(a, b) ==
    IF IsEmptyPath(a) THEN Clean(b)
    ELSE Clean(P(a.abs, a.segs \o b.segs))

RECURSIVE CommonLen(_, _)
CommonLen(s, t) ==
    IF s = <<>> \/ t = <<>> \/ Head(s) # Head(t) THEN 0
    ELSE 1 + CommonLen(Tail(s), Tail(t))

\* filepath.Rel(basepath, targpath): fails when exactly one of the two is
\* rooted, or when the base would have to be left through a "..".
Rel(basepath, targpath) ==
    LET base == Clean(basepath)
        targ == Clean(targpath)
        n == CommonLen(base.segs, targ.segs)
        baseLeft == SubSeq(base.segs, n + 1, Len(base.segs))
        targLeft == SubSeq(targ.segs, n + 1, Len(targ.segs))
    IN  IF base = targ THEN [ok |-> TRUE, path |-> P(FALSE, <<>>)]
        ELSE IF base.abs # targ.abs THEN [ok |-> FALSE, path |-> P(FALSE, <<>>)]
        ELSE IF baseLeft # <<>> /\ Head(baseLeft) = ".."
             THEN [ok |-> FALSE, path |-> P(FALSE, <<>>)]
        ELSE [ok |-> TRUE,
              path |-> P(FALSE, [i \in 1..Len(baseLeft) |-> ".."] \o targLeft)]

\* no createAssumeRoleCacheKey call, no MoveObjects call
NoKeyCall == << >>
NoMove == << >>
NoS3 == << >>
NoRuleCall == << >>

\* No call on the object store and no FindMatchingRule call is under way.
NoOther == s3 = NoS3 /\ ruleCall = NoRuleCall

(***************************************************************************)
(* Errors and the catcher.                                                 *)
(***************************************************************************)
ErrCanceled == [kind |-> "canceled", key |-> P(FALSE, <<>>)]
ErrIter == [kind |-> "iter", key |-> P(FALSE, <<>>)]
ErrList == [kind |-> "list", key |-> P(FALSE, <<>>)]
ErrRemove == [kind |-> "remove", key |-> P(FALSE, <<>>)]
ErrRel(k) == [kind |-> "rel", key |-> k]
ErrDownload(k) == [kind |-> "download", key |-> k]
ErrUpload(k) == [kind |-> "upload", key |-> k]
ErrWalk == [kind |-> "walk", key |-> P(FALSE, <<>>)]
ErrRemoveAll == [kind |-> "removeall", key |-> P(FALSE, <<>>)]

\* the nil error
NilErr == [kind |-> "nil", key |-> P(FALSE, <<>>)]

\* catcher.Add(e): a nil error is not added
Add(c, e) == IF e = NilErr THEN c ELSE c (+) SetToBag({e})

\* catcher.Resolve(): nil (the empty bag) when nothing was added
Resolve(c) == c

HasErr(c, e) == BagIn(e, c)

(***************************************************************************)
(* Inputs of a sync call.                                                  *)
(***************************************************************************)
Locals == {P(FALSE, <<"l">>)}
Remotes == {P(FALSE, <<"r">>), P(FALSE, <<"r", "d">>)}

\* Item names a listing can hold: two under "r", one rooted name (for which
\* filepath.Rel fails against a relative remote) and one outside "r".
ListingPool ==
    <<P(FALSE, <<"r", "a">>), P(FALSE, <<"r", "d", "b">>),
      P(TRUE, <<"x">>), P(FALSE, <<"o", "c">>)>>

Listings ==
    {SubSeq(ListingPool, w[1], w[1] + w[2] - 1) :
        w \in {v \in (1..Len(ListingPool)) \X (0..MaxItems) :
                    v[1] + v[2] - 1 <= Len(ListingPool)}}

\* File names walkLocalTree can return, relative to local.
FilePool == <<P(FALSE, <<"a">>), P(FALSE, <<"d", "b">>), P(FALSE, <<"c">>)>>

FileLists ==
    {SubSeq(FilePool, 1, n) : n \in {m \in 0..MaxItems : m <= Len(FilePool)}}

NoItem == P(FALSE, <<>>)

\* What the objects of a listing and the files of a walk hold: every object
\* and every file has a content of its own.
ListingData == <<"object-1", "object-2", "object-3", "object-4">>
FileData == <<"file-1", "file-2", "file-3">>

ObjectContent(k) ==
    ListingData[CHOOSE i \in 1..Len(ListingPool) : ListingPool[i] = k]

FileContent(f) == FileData[CHOOSE i \in 1..Len(FilePool) : FilePool[i] = f]

\* A file system or a bucket is a function from names to contents.
Names(m) == DOMAIN m
Written(m, k, v) == [x \in DOMAIN m \cup {k} |-> IF x = k THEN v ELSE m[x]]
Without(m, ks) == [x \in DOMAIN m \ ks |-> m[x]]

\* the names of m that lie in the directory dir
Below(dir, m) ==
    {p \in DOMAIN m : /\ p.abs = dir.abs
                      /\ Len(dir.segs) <= Len(p.segs)
                      /\ SubSeq(p.segs, 1, Len(dir.segs)) = dir.segs}

(***************************************************************************)
(* parallelBucketImpl.Pull                                                 *)
(***************************************************************************)
InitPull ==
    /\ size \in 0..MaxWorkers
    /\ deleteOnSync \in BOOLEAN
    /\ dryRun \in BOOLEAN
    /\ local \in Locals
    /\ remote \in Remotes
    /\ ctxDone = FALSE
    /\ catcher = EmptyBag
    /\ mainPc = "list"
    /\ result = EmptyBag
    /\ wpc = [w \in 1..size |-> "idle"]
    /\ witem = [w \in 1..size |-> NoItem]
    /\ listing \in Listings
    /\ iterIdx = 0
    /\ iterErr = FALSE
    /\ prodPc = "idle"
    /\ prodItem = NoItem
    /\ itemsClosed = FALSE
    /\ toDeleteClosed = FALSE
    /\ delPc = "idle"
    /\ keys = <<>>
    /\ dlStarted = EmptyBag
    /\ dlReturned = EmptyBag
    /\ rmCalls = <<>>
    /\ files = <<>>
    /\ inCh = <<>>
    /\ err = NilErr
    /\ upStarted = EmptyBag
    /\ upReturned = EmptyBag
    /\ localRemoved = 0
    /\ credsCache = << >>
    /\ credsCacheMutex = 0
    /\ now = 0
    /\ gpc = << >>
    /\ call = << >>
    /\ tree = << >>
    /\ store = [k \in {listing[i] : i \in 1..Len(listing)} |-> ObjectContent(k)]
    /\ op = "pull"
    /\ keyCall = NoKeyCall
    /\ move = NoMove
    /\ NoOther

\* The context is canceled (by the caller, or by its deadline).
Cancel ==
    /\ ~ctxDone
    /\ ctxDone' = TRUE
    /\ UNCHANGED <<size, deleteOnSync, dryRun, local, remote, catcher, mainPc,
                   result, wpc, witem>>
    /\ UNCHANGED pullVars
    /\ UNCHANGED pushVars
    /\ UNCHANGED credVars
    /\ UNCHANGED op
    /\ UNCHANGED restVars
    /\ UNCHANGED fsVars

\* iter, err := b.List(ctx, remote) fails: Pull returns the error at once.
PullListFails ==
    /\ mainPc = "list"
    /\ mainPc' = "returned"
    /\ result' = SetToBag({ErrList})
    /\ UNCHANGED <<size, deleteOnSync, dryRun, local, remote, ctxDone, catcher,
                   wpc, witem>>
    /\ UNCHANGED pullVars
    /\ UNCHANGED pushVars
    /\ UNCHANGED credVars
    /\ UNCHANGED op
    /\ UNCHANGED restVars
    /\ UNCHANGED fsVars

\* b.List succeeds: the producer, the workers, the closer of toDelete and the
\* deleter are started and Pull waits in its final select.
PullStart ==
    /\ mainPc = "list"
    /\ mainPc' = "wait"
    /\ prodPc' = "next"
    /\ wpc' = [w \in 1..size |-> "recv"]
    /\ delPc' = "drain"
    /\ UNCHANGED <<size, deleteOnSync, dryRun, local, remote, ctxDone, catcher,
                   result, witem>>
    /\ UNCHANGED <<listing, iterIdx, iterErr, prodItem, itemsClosed,
                   toDeleteClosed, keys, dlStarted, dlReturned, rmCalls>>
    /\ UNCHANGED pushVars
    /\ UNCHANGED credVars
    /\ UNCHANGED op
    /\ UNCHANGED restVars
    /\ UNCHANGED fsVars

\* Producer: iter.Next(ctx) returns true with the next item and no error.
ProducerNextItem ==
    /\ prodPc = "next"
    /\ iterIdx < Len(listing)
    /\ iterIdx' = iterIdx + 1
    /\ prodItem' = listing[iterIdx + 1]
    /\ prodPc' = "select"
    /\ UNCHANGED syncVars
    /\ UNCHANGED <<listing, iterErr, itemsClosed, toDeleteClosed, delPc, keys,
                   dlStarted, dlReturned, rmCalls>>
    /\ UNCHANGED pushVars
    /\ UNCHANGED credVars
    /\ UNCHANGED op
    /\ UNCHANGED restVars
    /\ UNCHANGED fsVars

\* Producer: iter.Next(ctx) returns true while iter.Err() is non-nil: the
\* error is added to the catcher and the producer returns (items is closed).
ProducerNextWithErr ==
    /\ prodPc = "next"
    /\ iterIdx < Len(listing)
    /\ iterIdx' = iterIdx + 1
    /\ iterErr' = TRUE
    /\ catcher' = Add(catcher, ErrIter)
    /\ prodPc' = "done"
    /\ itemsClosed' = TRUE
    /\ UNCHANGED <<size, deleteOnSync, dryRun, local, remote, ctxDone, mainPc,
                   result, wpc, witem>>
    /\ UNCHANGED <<listing, prodItem, toDeleteClosed, delPc, keys, dlStarted,
                   dlReturned, rmCalls>>
    /\ UNCHANGED pushVars
    /\ UNCHANGED credVars
    /\ UNCHANGED op
    /\ UNCHANGED restVars
    /\ UNCHANGED fsVars

\* Producer: iter.Next(ctx) returns false, at the end of the listing or on a
\* terminal error (failed = TRUE): the loop ends and items is closed.
\* iter.Err() is not looked at after the loop.
ProducerNextFalse ==
    /\ prodPc = "next"
    /\ \E failed \in BOOLEAN :
        /\ ~failed => iterIdx = Len(listing) \/ ctxDone
        /\ iterErr' = failed
    /\ prodPc' = "done"
    /\ itemsClosed' = TRUE
    /\ UNCHANGED syncVars
    /\ UNCHANGED <<listing, iterIdx, prodItem, toDeleteClosed, delPc, keys,
                   dlStarted, dlReturned, rmCalls>>
    /\ UNCHANGED pushVars
    /\ UNCHANGED credVars
    /\ UNCHANGED op
    /\ UNCHANGED restVars
    /\ UNCHANGED fsVars

\* ProducerCanceled for a producer whose send does not race against
\* ctx.Done(): the cancellation goes unnoticed.
ProducerSendUnaware ==
    /\ prodPc = "select"
    /\ ctxDone
    /\ UNCHANGED <<syncVars, pullVars, pushVars, credVars, fsVars, op,
                   restVars>>

\* Producer: the select takes <-ctx.Done(): ctx.Err() is added and the
\* producer returns.
ProducerCanceled ==
    /\ prodPc = "select"
    /\ ctxDone
    /\ catcher' = Add(catcher, ErrCanceled)
    /\ prodPc' = "done"
    /\ itemsClosed' = TRUE
    /\ UNCHANGED <<size, deleteOnSync, dryRun, local, remote, ctxDone, mainPc,
                   result, wpc, witem>>
    /\ UNCHANGED <<listing, iterIdx, iterErr, prodItem, toDeleteClosed, delPc,
                   keys, dlStarted, dlReturned, rmCalls>>
    /\ UNCHANGED pushVars
    /\ UNCHANGED credVars
    /\ UNCHANGED op
    /\ UNCHANGED restVars
    /\ UNCHANGED fsVars

\* The unbuffered channel items: the producer's send meets the receive of a
\* worker that is at `for item := range items`.
HandItem(w) ==
    /\ prodPc = "select"
    /\ wpc[w] = "recv"
    /\ witem' = [witem EXCEPT ![w] = prodItem]
    /\ wpc' = [wpc EXCEPT ![w] = "rel"]
    /\ prodPc' = "next"
    /\ UNCHANGED <<size, deleteOnSync, dryRun, local, remote, ctxDone, catcher,
                   mainPc, result>>
    /\ UNCHANGED <<listing, iterIdx, iterErr, prodItem, itemsClosed,
                   toDeleteClosed, delPc, keys, dlStarted, dlReturned, rmCalls>>
    /\ UNCHANGED pushVars
    /\ UNCHANGED credVars
    /\ UNCHANGED op
    /\ UNCHANGED restVars
    /\ UNCHANGED fsVars

\* Worker: range over the closed channel items ends; wg.Done().
WorkerItemsClosed(w) ==
    /\ wpc[w] = "recv"
    /\ itemsClosed
    /\ wpc' = [wpc EXCEPT ![w] = "done"]
    /\ UNCHANGED <<size, deleteOnSync, dryRun, local, remote, ctxDone, catcher,
                   mainPc, result, witem>>
    /\ UNCHANGED pullVars
    /\ UNCHANGED pushVars
    /\ UNCHANGED credVars
    /\ UNCHANGED op
    /\ UNCHANGED restVars
    /\ UNCHANGED fsVars

\* Worker: filepath.Rel(remote, item.Name()) fails: the error is added and
\* the worker returns.
WorkerRelFails(w) ==
    /\ wpc[w] = "rel"
    /\ ~Rel(remote, witem[w]).ok
    /\ catcher' = Add(catcher, ErrRel(witem[w]))
    /\ wpc' = [wpc EXCEPT ![w] = "done"]
    /\ UNCHANGED <<size, deleteOnSync, dryRun, local, remote, ctxDone, mainPc,
                   result, witem>>
    /\ UNCHANGED pullVars
    /\ UNCHANGED pushVars
    /\ UNCHANGED credVars
    /\ UNCHANGED op
    /\ UNCHANGED restVars
    /\ UNCHANGED fsVars

\* LocalName with the whole key below local, the remote prefix included.
LocalNameKeepsPrefix(name) == Join(local, name)

\* The local file the worker downloads an item to.
LocalName(name) == Join(local, Rel(remote, name).path)

\* WorkerDownloadCall with the call's own remote and local as the arguments
\* of every Download, instead of the item's key and its local file.
WorkerDownloadCallConstantPair(w) ==
    /\ wpc[w] = "rel"
    /\ Rel(remote, witem[w]).ok
    /\ dlStarted' = Add(dlStarted, [key |-> local, local |-> remote])
    /\ wpc' = [wpc EXCEPT ![w] = "download"]
    /\ UNCHANGED <<size, deleteOnSync, dryRun, local, remote, ctxDone, catcher,
                   mainPc, result, witem>>
    /\ UNCHANGED <<listing, iterIdx, iterErr, prodPc, prodItem, itemsClosed,
                   toDeleteClosed, delPc, keys, dlReturned, rmCalls>>
    /\ UNCHANGED pushVars
    /\ UNCHANGED credVars
    /\ UNCHANGED op
    /\ UNCHANGED restVars
    /\ UNCHANGED fsVars

\* Worker: b.Download(ctx, item.Name(), localName) is called.
WorkerDownloadCall(w) ==
    /\ wpc[w] = "rel"
    /\ Rel(remote, witem[w]).ok
    /\ dlStarted' = Add(dlStarted,
                        [key |-> witem[w], local |-> LocalName(witem[w])])
    /\ wpc' = [wpc EXCEPT ![w] = "download"]
    /\ UNCHANGED <<size, deleteOnSync, dryRun, local, remote, ctxDone, catcher,
                   mainPc, result, witem>>
    /\ UNCHANGED <<listing, iterIdx, iterErr, prodPc, prodItem, itemsClosed,
                   toDeleteClosed, delPc, keys, dlReturned, rmCalls>>
    /\ UNCHANGED pushVars
    /\ UNCHANGED credVars
    /\ UNCHANGED op
    /\ UNCHANGED restVars
    /\ UNCHANGED fsVars

\* WorkerDownloadReturn with the error of a failed download only recorded:
\* the worker goes on to publish the key whatever Download returned.
WorkerDownloadReturnPublishAlways(w) ==
    /\ wpc[w] = "download"
    /\ \E ok \in BOOLEAN :
        /\ dlReturned' = Add(dlReturned,
                             [key |-> witem[w],
                              local |-> Join(local, Rel(remote, witem[w]).path),
                              ok |-> ok])
        /\ wpc' = [wpc EXCEPT ![w] = "send"]
        /\ catcher' = IF ok THEN catcher
                      ELSE Add(catcher, ErrDownload(witem[w]))
        /\ ok => witem[w] \in Names(store)
        /\ tree' = IF ok THEN Written(tree, LocalName(witem[w]),
                                      store[witem[w]])
                   ELSE tree
    /\ UNCHANGED <<size, deleteOnSync, dryRun, local, remote, ctxDone, mainPc,
                   result, witem>>
    /\ UNCHANGED <<listing, iterIdx, iterErr, prodPc, prodItem, itemsClosed,
                   toDeleteClosed, delPc, keys, dlStarted, rmCalls>>
    /\ UNCHANGED pushVars
    /\ UNCHANGED credVars
    /\ UNCHANGED op
    /\ UNCHANGED restVars
    /\ UNCHANGED store

\* Worker: b.Download returns. On an error the worker adds it and returns;
\* on success, which takes the object to be in the bucket, the local file
\* holds the object's content and the worker goes on to publish the key on
\* toDelete.
WorkerDownloadReturn(w) ==
    /\ wpc[w] = "download"
    /\ \E ok \in BOOLEAN :
        /\ dlReturned' = Add(dlReturned,
                             [key |-> witem[w], local |-> LocalName(witem[w]),
                              ok |-> ok])
        /\ IF ok
           THEN /\ wpc' = [wpc EXCEPT ![w] = "send"]
                /\ catcher' = catcher
           ELSE /\ wpc' = [wpc EXCEPT ![w] = "done"]
                /\ catcher' = Add(catcher, ErrDownload(witem[w]))
        /\ ok => witem[w] \in Names(store)
        /\ tree' = IF ok THEN Written(tree, LocalName(witem[w]),
                                      store[witem[w]])
                   ELSE tree
    /\ UNCHANGED <<size, deleteOnSync, dryRun, local, remote, ctxDone, mainPc,
                   result, witem>>
    /\ UNCHANGED <<listing, iterIdx, iterErr, prodPc, prodItem, itemsClosed,
                   toDeleteClosed, delPc, keys, dlStarted, rmCalls>>
    /\ UNCHANGED pushVars
    /\ UNCHANGED credVars
    /\ UNCHANGED op
    /\ UNCHANGED restVars
    /\ UNCHANGED store

\* Worker: the select after a download takes <-ctx.Done(): ctx.Err() is
\* added and the worker returns.
WorkerCanceled(w) ==
    /\ wpc[w] = "send"
    /\ ctxDone
    /\ catcher' = Add(catcher, ErrCanceled)
    /\ wpc' = [wpc EXCEPT ![w] = "done"]
    /\ UNCHANGED <<size, deleteOnSync, dryRun, local, remote, ctxDone, mainPc,
                   result, witem>>
    /\ UNCHANGED pullVars
    /\ UNCHANGED pushVars
    /\ UNCHANGED credVars
    /\ UNCHANGED op
    /\ UNCHANGED restVars
    /\ UNCHANGED fsVars

\* The unbuffered channel toDelete: a worker's send of item.Name() meets the
\* deleter's receive, which appends the key to keys.
PublishKey(w) ==
    /\ wpc[w] = "send"
    /\ delPc = "drain"
    /\ ~toDeleteClosed
    /\ keys' = Append(keys, witem[w])
    /\ wpc' = [wpc EXCEPT ![w] = "recv"]
    /\ UNCHANGED <<size, deleteOnSync, dryRun, local, remote, ctxDone, catcher,
                   mainPc, result, witem>>
    /\ UNCHANGED <<listing, iterIdx, iterErr, prodPc, prodItem, itemsClosed,
                   toDeleteClosed, delPc, dlStarted, dlReturned, rmCalls>>
    /\ UNCHANGED pushVars
    /\ UNCHANGED credVars
    /\ UNCHANGED op
    /\ UNCHANGED restVars
    /\ UNCHANGED fsVars

\* CloseToDelete without the wait for the workers.
CloseToDeleteWithoutWait ==
    /\ mainPc # "list"
    /\ ~toDeleteClosed
    /\ toDeleteClosed' = TRUE
    /\ UNCHANGED syncVars
    /\ UNCHANGED <<listing, iterIdx, iterErr, prodPc, prodItem, itemsClosed,
                   delPc, keys, dlStarted, dlReturned, rmCalls>>
    /\ UNCHANGED pushVars
    /\ UNCHANGED credVars
    /\ UNCHANGED op
    /\ UNCHANGED restVars
    /\ UNCHANGED fsVars

\* The closer goroutine: wg.Wait() returns once every worker has returned,
\* then close(toDelete).
CloseToDelete ==
    /\ mainPc # "list"
    /\ ~toDeleteClosed
    /\ \A w \in Workers : wpc[w] = "done"
    /\ toDeleteClosed' = TRUE
    /\ UNCHANGED syncVars
    /\ UNCHANGED <<listing, iterIdx, iterErr, prodPc, prodItem, itemsClosed,
                   delPc, keys, dlStarted, dlReturned, rmCalls>>
    /\ UNCHANGED pushVars
    /\ UNCHANGED credVars
    /\ UNCHANGED op
    /\ UNCHANGED restVars
    /\ UNCHANGED fsVars

\* Deleter: range over the closed toDelete ends. Without deleteOnSync, or
\* under dryRun (where the keys are only logged), deleteSignal is closed.
DeleterSkip ==
    /\ delPc = "drain"
    /\ toDeleteClosed
    /\ ~deleteOnSync \/ dryRun
    /\ delPc' = "done"
    /\ UNCHANGED syncVars
    /\ UNCHANGED <<listing, iterIdx, iterErr, prodPc, prodItem, itemsClosed,
                   toDeleteClosed, keys, dlStarted, dlReturned, rmCalls>>
    /\ UNCHANGED pushVars
    /\ UNCHANGED credVars
    /\ UNCHANGED op
    /\ UNCHANGED restVars
    /\ UNCHANGED fsVars

\* DeleterRemoveCall with deleteOnSync alone deciding on the removal.
DeleterRemoveCallUnderDryRun ==
    /\ delPc = "drain"
    /\ toDeleteClosed
    /\ deleteOnSync
    /\ rmCalls' = Append(rmCalls, keys)
    /\ delPc' = "removing"
    /\ UNCHANGED syncVars
    /\ UNCHANGED <<listing, iterIdx, iterErr, prodPc, prodItem, itemsClosed,
                   toDeleteClosed, keys, dlStarted, dlReturned>>
    /\ UNCHANGED pushVars
    /\ UNCHANGED credVars
    /\ UNCHANGED op
    /\ UNCHANGED restVars
    /\ UNCHANGED fsVars

\* Deleter: with deleteOnSync and not dryRun, b.RemoveMany(ctx, keys...) is
\* called.
DeleterRemoveCall ==
    /\ delPc = "drain"
    /\ toDeleteClosed
    /\ deleteOnSync /\ ~dryRun
    /\ rmCalls' = Append(rmCalls, keys)
    /\ delPc' = "removing"
    /\ UNCHANGED syncVars
    /\ UNCHANGED <<listing, iterIdx, iterErr, prodPc, prodItem, itemsClosed,
                   toDeleteClosed, keys, dlStarted, dlReturned>>
    /\ UNCHANGED pushVars
    /\ UNCHANGED credVars
    /\ UNCHANGED op
    /\ UNCHANGED restVars
    /\ UNCHANGED fsVars

\* Deleter: b.RemoveMany returns; its error, if any, is wrapped and added;
\* deleteSignal is closed. The keys are gone from the bucket, all of them
\* when the call succeeded.
DeleterRemoveReturn ==
    /\ delPc = "removing"
    /\ \E ok \in BOOLEAN :
        /\ catcher' = IF ok THEN catcher ELSE Add(catcher, ErrRemove)
        /\ \E gone \in SUBSET {keys[i] : i \in 1..Len(keys)} :
            /\ ok => gone = {keys[i] : i \in 1..Len(keys)}
            /\ store' = Without(store, gone)
    /\ delPc' = "done"
    /\ UNCHANGED <<size, deleteOnSync, dryRun, local, remote, ctxDone, mainPc,
                   result, wpc, witem>>
    /\ UNCHANGED <<listing, iterIdx, iterErr, prodPc, prodItem, itemsClosed,
                   toDeleteClosed, keys, dlStarted, dlReturned, rmCalls>>
    /\ UNCHANGED pushVars
    /\ UNCHANGED credVars
    /\ UNCHANGED op
    /\ UNCHANGED restVars
    /\ UNCHANGED tree

\* PullReturn without the final select: Pull returns what the catcher holds
\* while its goroutines are still running.
PullReturnWithoutSelect ==
    /\ mainPc = "wait"
    /\ mainPc' = "returned"
    /\ result' = Resolve(catcher)
    /\ UNCHANGED <<size, deleteOnSync, dryRun, local, remote, ctxDone, catcher,
                   wpc, witem>>
    /\ UNCHANGED pullVars
    /\ UNCHANGED pushVars
    /\ UNCHANGED credVars
    /\ UNCHANGED op
    /\ UNCHANGED restVars
    /\ UNCHANGED fsVars

\* Pull's final select: <-ctx.Done() or <-deleteSignal, then
\* return catcher.Resolve().
PullReturn ==
    /\ mainPc = "wait"
    /\ ctxDone \/ delPc = "done"
    /\ mainPc' = "returned"
    /\ result' = Resolve(catcher)
    /\ UNCHANGED <<size, deleteOnSync, dryRun, local, remote, ctxDone, catcher,
                   wpc, witem>>
    /\ UNCHANGED pullVars
    /\ UNCHANGED pushVars
    /\ UNCHANGED credVars
    /\ UNCHANGED op
    /\ UNCHANGED restVars
    /\ UNCHANGED fsVars

NextPull ==
    \/ Cancel
    \/ PullListFails
    \/ PullStart
    \/ ProducerNextItem
    \/ ProducerNextWithErr
    \/ ProducerNextFalse
    \/ ProducerCanceled
    \/ \E w \in Workers : HandItem(w)
    \/ \E w \in Workers : WorkerItemsClosed(w)
    \/ \E w \in Workers : WorkerRelFails(w)
    \/ \E w \in Workers : WorkerDownloadCall(w)
    \/ \E w \in Workers : WorkerDownloadReturn(w)
    \/ \E w \in Workers : WorkerCanceled(w)
    \/ \E w \in Workers : PublishKey(w)
    \/ CloseToDelete
    \/ DeleterSkip
    \/ DeleterRemoveCall
    \/ DeleterRemoveReturn
    \/ PullReturn

(***************************************************************************)
(* parallelBucketImpl.Push                                                 *)
(***************************************************************************)
InitPush ==
    /\ size \in 0..MaxWorkers
    /\ deleteOnSync \in BOOLEAN
    /\ dryRun \in BOOLEAN
    /\ local \in Locals
    /\ remote \in Remotes
    /\ ctxDone = FALSE
    /\ catcher = EmptyBag
    /\ mainPc = "walk"
    /\ result = EmptyBag
    /\ wpc = [w \in 1..size |-> "idle"]
    /\ witem = [w \in 1..size |-> NoItem]
    /\ listing = <<>>
    /\ iterIdx = 0
    /\ iterErr = FALSE
    /\ prodPc = "idle"
    /\ prodItem = NoItem
    /\ itemsClosed = FALSE
    /\ toDeleteClosed = FALSE
    /\ delPc = "idle"
    /\ keys = <<>>
    /\ dlStarted = EmptyBag
    /\ dlReturned = EmptyBag
    /\ rmCalls = <<>>
    /\ files \in FileLists
    /\ inCh = <<>>
    /\ err = NilErr
    /\ upStarted = EmptyBag
    /\ upReturned = EmptyBag
    /\ localRemoved = 0
    /\ credsCache = << >>
    /\ credsCacheMutex = 0
    /\ now = 0
    /\ gpc = << >>
    /\ call = << >>
    /\ tree = [p \in {Join(local, files[i]) : i \in 1..Len(files)} |->
                 FileContent(CHOOSE f \in {files[i] : i \in 1..Len(files)} :
                                Join(local, f) = p)]
    /\ store = << >>
    /\ op = "push"
    /\ keyCall = NoKeyCall
    /\ move = NoMove
    /\ NoOther

\* walkLocalTree(ctx, local) returns an error when its context is canceled.
walkLocalTreeCanSucceed == ~ctxDone

\* PushWalkFails without the return: the error is kept and Push goes on to
\* wg.Wait() with no file queued and no worker started.
PushWalkFailsWithoutReturn ==
    /\ mainPc = "walk"
    /\ mainPc' = "joined"
    /\ catcher' = Add(catcher, ErrWalk)
    /\ UNCHANGED <<size, deleteOnSync, dryRun, local, remote, ctxDone, result,
                   wpc, witem>>
    /\ UNCHANGED pullVars
    /\ UNCHANGED credVars
    /\ UNCHANGED op
    /\ UNCHANGED restVars
    /\ UNCHANGED fsVars
    /\ UNCHANGED pushVars

\* files, err := walkLocalTree(ctx, local) fails: Push returns the error.
PushWalkFails ==
    /\ mainPc = "walk"
    /\ mainPc' = "returned"
    /\ result' = SetToBag({ErrWalk})
    /\ UNCHANGED <<size, deleteOnSync, dryRun, local, remote, ctxDone, catcher,
                   wpc, witem>>
    /\ UNCHANGED pullVars
    /\ UNCHANGED credVars
    /\ UNCHANGED op
    /\ UNCHANGED restVars
    /\ UNCHANGED fsVars
    /\ UNCHANGED pushVars

\* PushStart with a worker started whatever b.size is.
PushStartAtLeastOneWorker ==
    /\ mainPc = "walk"
    /\ walkLocalTreeCanSucceed
    /\ inCh' = files
    /\ wpc' = [w \in 1..(IF size = 0 THEN 1 ELSE size) |-> "recv"]
    /\ mainPc' = "wait"
    /\ UNCHANGED <<size, deleteOnSync, dryRun, local, remote, ctxDone, catcher,
                   result, witem>>
    /\ UNCHANGED pullVars
    /\ UNCHANGED credVars
    /\ UNCHANGED op
    /\ UNCHANGED restVars
    /\ UNCHANGED fsVars
    /\ UNCHANGED <<files, err, upStarted, upReturned, localRemoved>>

\* The walk succeeds: every file name is put on the buffered channel `in`,
\* which is closed; b.size workers are started and Push waits for them.
PushStart ==
    /\ mainPc = "walk"
    /\ walkLocalTreeCanSucceed
    /\ inCh' = files
    /\ wpc' = [w \in 1..size |-> "recv"]
    /\ mainPc' = "wait"
    /\ UNCHANGED <<size, deleteOnSync, dryRun, local, remote, ctxDone, catcher,
                   result, witem>>
    /\ UNCHANGED pullVars
    /\ UNCHANGED credVars
    /\ UNCHANGED op
    /\ UNCHANGED restVars
    /\ UNCHANGED fsVars
    /\ UNCHANGED <<files, err, upStarted, upReturned, localRemoved>>

\* PushTakeFile with remote itself as the key and the bare file name as the
\* local path of every Upload.
PushTakeFileUnjoined(w) ==
    /\ wpc[w] = "recv"
    /\ inCh # <<>>
    /\ inCh' = Tail(inCh)
    /\ witem' = [witem EXCEPT ![w] = Head(inCh)]
    /\ IF dryRun
       THEN UNCHANGED <<wpc, upStarted>>
       ELSE /\ wpc' = [wpc EXCEPT ![w] = "upload"]
            /\ upStarted' = Add(upStarted,
                                [key |-> remote, local |-> Head(inCh)])
    /\ UNCHANGED <<size, deleteOnSync, dryRun, local, remote, ctxDone, catcher,
                   mainPc, result>>
    /\ UNCHANGED pullVars
    /\ UNCHANGED credVars
    /\ UNCHANGED op
    /\ UNCHANGED restVars
    /\ UNCHANGED fsVars
    /\ UNCHANGED <<files, err, upReturned, localRemoved>>

\* PushTakeFile by a worker that does not wait for its Upload to return
\* before it receives the next file name.
PushTakeFileWhileBusy(w) ==
    /\ wpc[w] \in {"recv", "upload"}
    /\ inCh # <<>>
    /\ inCh' = Tail(inCh)
    /\ witem' = [witem EXCEPT ![w] = Head(inCh)]
    /\ IF dryRun
       THEN UNCHANGED <<wpc, upStarted>>
       ELSE /\ wpc' = [wpc EXCEPT ![w] = "upload"]
            /\ upStarted' = Add(upStarted,
                                [key |-> Join(remote, Head(inCh)),
                                 local |-> Join(local, Head(inCh))])
    /\ UNCHANGED <<size, deleteOnSync, dryRun, local, remote, ctxDone, catcher,
                   mainPc, result>>
    /\ UNCHANGED pullVars
    /\ UNCHANGED credVars
    /\ UNCHANGED op
    /\ UNCHANGED restVars
    /\ UNCHANGED fsVars
    /\ UNCHANGED <<files, err, upReturned, localRemoved>>

\* Worker: `for fn := range in` receives the next file name. Under dryRun the
\* worker continues with the next one; otherwise it calls
\* b.Bucket.Upload(ctx, filepath.Join(remote, fn), filepath.Join(local, fn)).
PushTakeFile(w) ==
    /\ wpc[w] = "recv"
    /\ inCh # <<>>
    /\ inCh' = Tail(inCh)
    /\ witem' = [witem EXCEPT ![w] = Head(inCh)]
    /\ IF dryRun
       THEN UNCHANGED <<wpc, upStarted>>
       ELSE /\ wpc' = [wpc EXCEPT ![w] = "upload"]
            /\ upStarted' = Add(upStarted,
                                [key |-> Join(remote, Head(inCh)),
                                 local |-> Join(local, Head(inCh))])
    /\ UNCHANGED <<size, deleteOnSync, dryRun, local, remote, ctxDone, catcher,
                   mainPc, result>>
    /\ UNCHANGED pullVars
    /\ UNCHANGED credVars
    /\ UNCHANGED op
    /\ UNCHANGED restVars
    /\ UNCHANGED fsVars
    /\ UNCHANGED <<files, err, upReturned, localRemoved>>

\* Worker: the range over the closed, empty channel ends; wg.Done().
PushWorkerDone(w) ==
    /\ wpc[w] = "recv"
    /\ inCh = <<>>
    /\ wpc' = [wpc EXCEPT ![w] = "done"]
    /\ UNCHANGED <<size, deleteOnSync, dryRun, local, remote, ctxDone, catcher,
                   mainPc, result, witem>>
    /\ UNCHANGED pullVars
    /\ UNCHANGED credVars
    /\ UNCHANGED op
    /\ UNCHANGED restVars
    /\ UNCHANGED fsVars
    /\ UNCHANGED pushVars

\* Worker: Upload returns and its result is assigned to `err`, the variable
\* of Push that every worker's closure captures. On success, which takes the
\* local file to be there, the object holds the file's content.
UploadReturn(w) ==
    /\ wpc[w] = "upload"
    /\ \E ok \in BOOLEAN :
        /\ upReturned' = Add(upReturned,
                             [key |-> Join(remote, witem[w]),
                              local |-> Join(local, witem[w]), ok |-> ok])
        /\ err' = IF ok THEN NilErr ELSE ErrUpload(Join(remote, witem[w]))
        /\ ok => Join(local, witem[w]) \in Names(tree)
        /\ store' = IF ok THEN Written(store, Join(remote, witem[w]),
                                       tree[Join(local, witem[w])])
                    ELSE store
    /\ wpc' = [wpc EXCEPT ![w] = "check"]
    /\ UNCHANGED <<size, deleteOnSync, dryRun, local, remote, ctxDone, catcher,
                   mainPc, result, witem>>
    /\ UNCHANGED pullVars
    /\ UNCHANGED credVars
    /\ UNCHANGED op
    /\ UNCHANGED restVars
    /\ UNCHANGED tree
    /\ UNCHANGED <<files, inCh, upStarted, localRemoved>>

\* Worker: `if err != nil` reads the shared variable, unsynchronised with the
\* other workers' assignments: it sees whichever of them came last.
CheckErr(w) ==
    /\ wpc[w] = "check"
    /\ wpc' = [wpc EXCEPT ![w] = IF err # NilErr THEN "add" ELSE "recv"]
    /\ UNCHANGED <<size, deleteOnSync, dryRun, local, remote, ctxDone, catcher,
                   mainPc, result, witem>>
    /\ UNCHANGED pullVars
    /\ UNCHANGED credVars
    /\ UNCHANGED op
    /\ UNCHANGED restVars
    /\ UNCHANGED fsVars
    /\ UNCHANGED pushVars

\* Worker: catcher.Add(err) reads the shared variable again.
AddErr(w) ==
    /\ wpc[w] = "add"
    /\ catcher' = Add(catcher, err)
    /\ wpc' = [wpc EXCEPT ![w] = "recv"]
    /\ UNCHANGED <<size, deleteOnSync, dryRun, local, remote, ctxDone, mainPc,
                   result, witem>>
    /\ UNCHANGED pullVars
    /\ UNCHANGED credVars
    /\ UNCHANGED op
    /\ UNCHANGED restVars
    /\ UNCHANGED fsVars
    /\ UNCHANGED pushVars

\* PushJoin without the wait for the workers.
PushJoinWithoutWait ==
    /\ mainPc = "wait"
    /\ mainPc' = "joined"
    /\ UNCHANGED <<size, deleteOnSync, dryRun, local, remote, ctxDone, catcher,
                   result, wpc, witem>>
    /\ UNCHANGED pullVars
    /\ UNCHANGED credVars
    /\ UNCHANGED op
    /\ UNCHANGED restVars
    /\ UNCHANGED fsVars
    /\ UNCHANGED pushVars

\* wg.Wait() returns once every worker has returned.
PushJoin ==
    /\ mainPc = "wait"
    /\ \A w \in Workers : wpc[w] = "done"
    /\ mainPc' = "joined"
    /\ UNCHANGED <<size, deleteOnSync, dryRun, local, remote, ctxDone, catcher,
                   result, wpc, witem>>
    /\ UNCHANGED pullVars
    /\ UNCHANGED credVars
    /\ UNCHANGED op
    /\ UNCHANGED restVars
    /\ UNCHANGED fsVars
    /\ UNCHANGED pushVars

\* With deleteOnSync and not dryRun: os.RemoveAll(local), whose error, if
\* any, is wrapped and added. Everything in local is gone when the call
\* succeeded, and what it got to before the error otherwise.
PushRemoveAll ==
    /\ mainPc = "joined"
    /\ deleteOnSync /\ ~dryRun
    /\ localRemoved' = localRemoved + 1
    /\ \E ok \in BOOLEAN :
        /\ catcher' = IF ok THEN catcher ELSE Add(catcher, ErrRemoveAll)
        /\ \E gone \in SUBSET Below(local, tree) :
            /\ ok => gone = Below(local, tree)
            /\ tree' = Without(tree, gone)
    /\ mainPc' = "resolve"
    /\ UNCHANGED <<size, deleteOnSync, dryRun, local, remote, ctxDone, result,
                   wpc, witem>>
    /\ UNCHANGED pullVars
    /\ UNCHANGED credVars
    /\ UNCHANGED op
    /\ UNCHANGED restVars
    /\ UNCHANGED store
    /\ UNCHANGED <<files, inCh, err, upStarted, upReturned>>

\* return catcher.Resolve()
PushReturn ==
    /\ \/ mainPc = "resolve"
       \/ mainPc = "joined" /\ ~(deleteOnSync /\ ~dryRun)
    /\ mainPc' = "returned"
    /\ result' = Resolve(catcher)
    /\ UNCHANGED <<size, deleteOnSync, dryRun, local, remote, ctxDone, catcher,
                   wpc, witem>>
    /\ UNCHANGED pullVars
    /\ UNCHANGED credVars
    /\ UNCHANGED op
    /\ UNCHANGED restVars
    /\ UNCHANGED fsVars
    /\ UNCHANGED pushVars

NextPush ==
    \/ Cancel
    \/ PushWalkFails
    \/ PushStart
    \/ \E w \in Workers : PushTakeFile(w)
    \/ \E w \in Workers : PushWorkerDone(w)
    \/ \E w \in Workers : UploadReturn(w)
    \/ \E w \in Workers : CheckErr(w)
    \/ \E w \in Workers : AddErr(w)
    \/ PushJoin
    \/ PushRemoveAll
    \/ PushReturn

(***************************************************************************)
(* A Push followed by a Pull of the same remote prefix on the same bucket, *)
(* as makePullWithCacheTest does it.                                       *)
(***************************************************************************)
InPush == op = "push"

\* The directories the Pull after a Push writes to: the one that was pushed,
\* or a new one.
PullLocals == Locals \cup {P(FALSE, <<"n">>)}

\* The orders in which a listing can yield the names of S.
ListOrders(S) ==
    {seq \in [1..Cardinality(S) -> S] :
        \A i, j \in 1..Cardinality(S) : i # j => seq[i] # seq[j]}

\* require.NoError(t, bucket.Push(...)) has passed: bucket.Pull is called
\* with the same remote; its b.List(ctx, remote) will yield the objects the
\* bucket holds under remote.
PullAfterPush ==
    /\ InPush
    /\ mainPc = "returned" /\ result = EmptyBag /\ ~ctxDone
    /\ ~deleteOnSync
    /\ mainPc' = "list"
    /\ catcher' = EmptyBag
    /\ local' \in PullLocals
    /\ listing' \in ListOrders(Below(remote, store))
    /\ wpc' = [w \in 1..size |-> "idle"]
    /\ witem' = [w \in 1..size |-> NoItem]
    /\ UNCHANGED <<size, deleteOnSync, dryRun, remote, ctxDone, result>>
    /\ UNCHANGED <<iterIdx, iterErr, prodPc, prodItem, itemsClosed,
                   toDeleteClosed, delPc, keys, dlStarted, dlReturned, rmCalls>>
    /\ op' = "pull"
    /\ UNCHANGED restVars
    /\ UNCHANGED pushVars
    /\ UNCHANGED credVars
    /\ UNCHANGED fsVars

(***************************************************************************)
(* The credential cache: seededCredentialProvider.Retrieve                 *)
(***************************************************************************)
Goroutines == 1..MaxGoroutines

CacheKeys == {"role", "role|x"}
MinLifetimes == {0, 1}
Expiries == {1, 3}

\* The errors the wrapped provider's Retrieve can return.
ProviderErrs == {"Uh-oh"}

\* aws.Credentials: who issued them and when they expire.
Creds(id, expires) == [id |-> id, expires |-> expires]

ZeroCreds == Creds(0, 0)

\* time.Now().Before(cachedCreds.Expires.Add(-s.minimumLifetime))
FreshTooEarly(c, min, t) == t + 1 < c.expires - min

FreshAtBoundary(c, min, t) == t <= c.expires - min

\* Fresh with one margin, of one time unit, for every caller instead of the
\* caller's own.
FreshGlobalMargin(c, min, t) == t < c.expires - 1

Fresh(c, min, t) == t < c.expires - min

\* delete(credsCache, key)
MapDelete(cache, key) == [k \in DOMAIN cache \ {key} |-> cache[k]]

\* credsCache[key] = &creds
MapPut(cache, key, c) ==
    [k \in DOMAIN cache \cup {key} |-> IF k = key THEN c ELSE cache[k]]

NoCall ==
    [key |-> "", min |-> 0, perr |-> "", pexp |-> 0, tnow |-> -1,
     before |-> << >>, invoked |-> 0, ret |-> ZeroCreds, rerr |-> "",
     after |-> << >>, waited |-> FALSE]

\* No Push and no Pull is under way.
NoSync ==
    /\ size = 0
    /\ deleteOnSync = FALSE
    /\ dryRun = FALSE
    /\ local = NoItem
    /\ remote = NoItem
    /\ ctxDone = FALSE
    /\ catcher = EmptyBag
    /\ mainPc = "idle"
    /\ result = EmptyBag
    /\ wpc = << >>
    /\ witem = << >>
    /\ listing = <<>>
    /\ iterIdx = 0
    /\ iterErr = FALSE
    /\ prodPc = "idle"
    /\ prodItem = NoItem
    /\ itemsClosed = FALSE
    /\ toDeleteClosed = FALSE
    /\ delPc = "idle"
    /\ keys = <<>>
    /\ dlStarted = EmptyBag
    /\ dlReturned = EmptyBag
    /\ rmCalls = <<>>
    /\ files = <<>>
    /\ inCh = <<>>
    /\ err = NilErr
    /\ upStarted = EmptyBag
    /\ upReturned = EmptyBag
    /\ localRemoved = 0
    /\ tree = << >>
    /\ store = << >>

\* No Retrieve is under way and the cache is empty.
NoRetrieve ==
    /\ credsCache = << >>
    /\ credsCacheMutex = 0
    /\ now = 0
    /\ gpc = << >>
    /\ call = << >>

\* No goroutine has called Retrieve yet; what the cache holds is left to
\* InitCred and InitSeeded.
InitCalls ==
    /\ credsCacheMutex = 0
    /\ now = 0
    /\ gpc = [g \in Goroutines |-> "idle"]
    /\ call = [g \in Goroutines |-> NoCall]
    /\ NoSync
    /\ op = "retrieve"
    /\ keyCall = NoKeyCall
    /\ move = NoMove
    /\ NoOther

\* resetCredsCacheForTest(), or the start of the process: the cache is empty.
InitCred == credsCache = << >> /\ InitCalls

\* The credentials seedCache puts under the test's cache key (they were
\* issued by no goroutine of the model).
Seeds == {Creds(0, e) : e \in Expiries}

\* seedCache(creds) on the reset cache.
InitSeeded ==
    /\ credsCache \in {[k \in {"role"} |-> c] : c \in Seeds}
    /\ InitCalls

\* time passes
Tick ==
    /\ now < MaxTime
    /\ now' = now + 1
    /\ UNCHANGED <<credsCache, credsCacheMutex, gpc, call>>
    /\ UNCHANGED <<syncVars, pullVars, pushVars, fsVars, op, restVars>>

\* A goroutine calls Retrieve on WithSeed(provider, key, min).
RetrieveCall(g) ==
    /\ gpc[g] = "idle"
    /\ \E key \in CacheKeys, min \in MinLifetimes :
        call' = [call EXCEPT ![g] = [NoCall EXCEPT !.key = key, !.min = min]]
    /\ gpc' = [gpc EXCEPT ![g] = "lock"]
    /\ UNCHANGED <<credsCache, credsCacheMutex, now>>
    /\ UNCHANGED <<syncVars, pullVars, pushVars, fsVars, op, restVars>>

\* credsCacheMutex.Lock() with no regard for who holds the mutex.
LockUnguarded(g) ==
    /\ gpc[g] = "lock"
    /\ credsCacheMutex' = g
    /\ gpc' = [gpc EXCEPT ![g] = "check"]
    /\ call' = [h \in Goroutines |->
                  IF h = g THEN [call[h] EXCEPT !.before = credsCache]
                  ELSE IF gpc[h] = "lock"
                       THEN [call[h] EXCEPT !.waited = TRUE]
                       ELSE call[h]]
    /\ UNCHANGED <<credsCache, now>>
    /\ UNCHANGED <<syncVars, pullVars, pushVars, fsVars, op, restVars>>

\* credsCacheMutex.Lock(): taken when the mutex is free; the goroutines
\* still blocked in Lock have waited for this one.
Lock(g) ==
    /\ gpc[g] = "lock"
    /\ credsCacheMutex = 0
    /\ credsCacheMutex' = g
    /\ gpc' = [gpc EXCEPT ![g] = "check"]
    /\ call' = [h \in Goroutines |->
                  IF h = g THEN [call[h] EXCEPT !.before = credsCache]
                  ELSE IF gpc[h] = "lock"
                       THEN [call[h] EXCEPT !.waited = TRUE]
                       ELSE call[h]]
    /\ UNCHANGED <<credsCache, now>>
    /\ UNCHANGED <<syncVars, pullVars, pushVars, fsVars, op, restVars>>

\* The cache key is present and the entry is fresh: return *cachedCreds, nil.
CacheHit(g) ==
    /\ gpc[g] = "check"
    /\ call[g].key \in DOMAIN credsCache
    /\ Fresh(credsCache[call[g].key], call[g].min, now)
    /\ call' = [call EXCEPT ![g].tnow = now,
                            ![g].ret = credsCache[call[g].key],
                            ![g].rerr = ""]
    /\ gpc' = [gpc EXCEPT ![g] = "unlock"]
    /\ UNCHANGED <<credsCache, credsCacheMutex, now>>
    /\ UNCHANGED <<syncVars, pullVars, pushVars, fsVars, op, restVars>>

\* CacheEvict with the whole map emptied instead of the one key deleted.
CacheEvictClearsCache(g) ==
    /\ gpc[g] = "check"
    /\ call[g].key \in DOMAIN credsCache
    /\ ~Fresh(credsCache[call[g].key], call[g].min, now)
    /\ credsCache' = << >>
    /\ call' = [call EXCEPT ![g].tnow = now, ![g].invoked = @ + 1]
    /\ gpc' = [gpc EXCEPT ![g] = "provider"]
    /\ UNCHANGED <<credsCacheMutex, now>>
    /\ UNCHANGED <<syncVars, pullVars, pushVars, fsVars, op, restVars>>

\* CacheEvict with the stale entry left in the map.
CacheEvictKeepsEntry(g) ==
    /\ gpc[g] = "check"
    /\ call[g].key \in DOMAIN credsCache
    /\ ~Fresh(credsCache[call[g].key], call[g].min, now)
    /\ call' = [call EXCEPT ![g].tnow = now, ![g].invoked = @ + 1]
    /\ gpc' = [gpc EXCEPT ![g] = "provider"]
    /\ UNCHANGED <<credsCache, credsCacheMutex, now>>
    /\ UNCHANGED <<syncVars, pullVars, pushVars, fsVars, op, restVars>>

\* The cache key is present but the entry is not fresh: it is deleted and
\* s.provider.Retrieve(ctx) is called.
CacheEvict(g) ==
    /\ gpc[g] = "check"
    /\ call[g].key \in DOMAIN credsCache
    /\ ~Fresh(credsCache[call[g].key], call[g].min, now)
    /\ credsCache' = MapDelete(credsCache, call[g].key)
    /\ call' = [call EXCEPT ![g].tnow = now, ![g].invoked = @ + 1]
    /\ gpc' = [gpc EXCEPT ![g] = "provider"]
    /\ UNCHANGED <<credsCacheMutex, now>>
    /\ UNCHANGED <<syncVars, pullVars, pushVars, fsVars, op, restVars>>

\* CacheMiss with the mutex released before the wrapped provider is called.
CacheMissUnlocksFirst(g) ==
    /\ gpc[g] = "check"
    /\ call[g].key \notin DOMAIN credsCache
    /\ call' = [call EXCEPT ![g].invoked = @ + 1]
    /\ gpc' = [gpc EXCEPT ![g] = "provider"]
    /\ credsCacheMutex' = 0
    /\ UNCHANGED <<credsCache, now>>
    /\ UNCHANGED <<syncVars, pullVars, pushVars, fsVars, op, restVars>>

\* The cache key is absent: s.provider.Retrieve(ctx) is called.
CacheMiss(g) ==
    /\ gpc[g] = "check"
    /\ call[g].key \notin DOMAIN credsCache
    /\ call' = [call EXCEPT ![g].invoked = @ + 1]
    /\ gpc' = [gpc EXCEPT ![g] = "provider"]
    /\ UNCHANGED <<credsCache, credsCacheMutex, now>>
    /\ UNCHANGED <<syncVars, pullVars, pushVars, fsVars, op, restVars>>

\* ProviderFails with the entry that was found put back into the cache.
ProviderFailsRestoresEntry(g) ==
    /\ gpc[g] = "provider"
    /\ \E e \in ProviderErrs :
        call' = [call EXCEPT ![g].perr = e, ![g].ret = ZeroCreds,
                             ![g].rerr = e]
    /\ credsCache' = IF call[g].key \in DOMAIN call[g].before
                     THEN MapPut(credsCache, call[g].key,
                                 call[g].before[call[g].key])
                     ELSE credsCache
    /\ gpc' = [gpc EXCEPT ![g] = "unlock"]
    /\ UNCHANGED <<credsCacheMutex, now>>
    /\ UNCHANGED <<syncVars, pullVars, pushVars, fsVars, op, restVars>>

\* ProviderFails with the error replaced by one of Retrieve's own.
ProviderFailsRewrapped(g) ==
    /\ gpc[g] = "provider"
    /\ \E e \in ProviderErrs :
        call' = [call EXCEPT ![g].perr = e, ![g].ret = ZeroCreds,
                             ![g].rerr = "retrieve failed"]
    /\ gpc' = [gpc EXCEPT ![g] = "unlock"]
    /\ UNCHANGED <<credsCache, credsCacheMutex, now>>
    /\ UNCHANGED <<syncVars, pullVars, pushVars, fsVars, op, restVars>>

\* The wrapped provider returns an error (recorded in perr): return creds, err.
ProviderFails(g) ==
    /\ gpc[g] = "provider"
    /\ \E e \in ProviderErrs :
        call' = [call EXCEPT ![g].perr = e, ![g].ret = ZeroCreds,
                             ![g].rerr = e]
    /\ gpc' = [gpc EXCEPT ![g] = "unlock"]
    /\ UNCHANGED <<credsCache, credsCacheMutex, now>>
    /\ UNCHANGED <<syncVars, pullVars, pushVars, fsVars, op, restVars>>

\* The wrapped provider returns credentials (their expiry is recorded in
\* pexp): they are stored under the cache key and returned.
ProviderSucceeds(g) ==
    /\ gpc[g] = "provider"
    /\ \E exp \in Expiries :
        /\ credsCache' = MapPut(credsCache, call[g].key, Creds(g, exp))
        /\ call' = [call EXCEPT ![g].pexp = exp, ![g].ret = Creds(g, exp),
                                ![g].rerr = ""]
    /\ gpc' = [gpc EXCEPT ![g] = "unlock"]
    /\ UNCHANGED <<credsCacheMutex, now>>
    /\ UNCHANGED <<syncVars, pullVars, pushVars, fsVars, op, restVars>>

\* defer credsCacheMutex.Unlock(): Retrieve returns.
Unlock(g) ==
    /\ gpc[g] = "unlock"
    /\ credsCacheMutex' = 0
    /\ call' = [call EXCEPT ![g].after = credsCache]
    /\ gpc' = [gpc EXCEPT ![g] = "returned"]
    /\ UNCHANGED <<credsCache, now>>
    /\ UNCHANGED <<syncVars, pullVars, pushVars, fsVars, op, restVars>>

NextCred ==
    \/ Tick
    \/ \E g \in Goroutines : RetrieveCall(g)
    \/ \E g \in Goroutines : Lock(g)
    \/ \E g \in Goroutines : CacheHit(g)
    \/ \E g \in Goroutines : CacheEvict(g)
    \/ \E g \in Goroutines : CacheMiss(g)
    \/ \E g \in Goroutines : ProviderFails(g)
    \/ \E g \in Goroutines : ProviderSucceeds(g)
    \/ \E g \in Goroutines : Unlock(g)

(***************************************************************************)
(* The cache key: createAssumeRoleCacheKey                                 *)
(* A string is the sequence of its characters.                             *)
(***************************************************************************)
\* the characters of the model's strings: a letter and the separator
Chars == {"a", "|"}

\* the strings of at most n characters
Strings(n) == UNION {[1..k -> Chars] : k \in 0..n}

\* externalID *string: nil, or a pointer to a string (the empty one included)
NilID == [set |-> FALSE, s |-> << >>]

PtrTo(str) == [set |-> TRUE, s |-> str]

ExternalIDs == {NilID} \cup {PtrTo(str) : str \in Strings(MaxLen)}

\* if externalID != nil { return roleARN + "|" + *externalID }; return roleARN
createAssumeRoleCacheKeyNoSeparator(roleARN, externalID) ==
    IF externalID.set THEN roleARN \o externalID.s ELSE roleARN

createAssumeRoleCacheKey(roleARN, externalID) ==
    IF externalID.set THEN roleARN \o <<"|">> \o externalID.s ELSE roleARN

\* the calls that are compared with each other
KeyCalls == {1, 2}

KeyCallOf(roleARN, externalID) ==
    [roleARN |-> roleARN, externalID |-> externalID,
     returned |-> FALSE, key |-> << >>]

\* Two calls are about to be made, each with any role ARN and any external ID.
InitKey ==
    /\ NoSync
    /\ NoRetrieve
    /\ op = "key"
    /\ move = NoMove
    /\ NoOther
    /\ keyCall \in [KeyCalls -> {KeyCallOf(a, e) : a \in Strings(MaxLen),
                                                   e \in ExternalIDs}]

\* one call of createAssumeRoleCacheKey returns
CreateKey(i) ==
    /\ op = "key"
    /\ ~keyCall[i].returned
    /\ keyCall' = [keyCall EXCEPT
                     ![i].returned = TRUE,
                     ![i].key = createAssumeRoleCacheKey(keyCall[i].roleARN,
                                                         keyCall[i].externalID)]
    /\ UNCHANGED <<syncVars, pullVars, pushVars, credVars, fsVars, op, move,
                   otherVars>>

NextKey == \E i \in KeyCalls : CreateKey(i)

(***************************************************************************)
(* Bucket.MoveObjects(ctx, destBucket, sourceKeys, destKeys): the batched  *)
(* copy and delete across two buckets.                                     *)
(***************************************************************************)
\* testutil.NewUUID(), "moved-" + sourceKeys[i] and "data-%d": the i-th
\* source key, its destination key and what the source object holds.
SourceKey(i) == <<"key", i>>
DestKey(i) == <<"moved-key", i>>
Data(i) == <<"data", i>>

ErrCopy(k) == [kind |-> "copy", key |-> k]
ErrRemoveMany(start) == [kind |-> "removemany", key |-> <<"batch", start>>]

\* BatchEnd with one pair more in every batch.
BatchEndOnePairMore(start, batchSize, n) ==
    IF start + batchSize <= n THEN start + batchSize ELSE n

\* the index of the last pair of the batch that starts at start
BatchEnd(start, batchSize, n) ==
    IF start + batchSize - 1 <= n THEN start + batchSize - 1 ELSE n

\* BatchSourceKeys with the first key of the batch only.
BatchSourceKeysFirstOnly(mv, start) == {mv.sourceKeys[start]}

\* the source keys of the batch that starts at start
BatchSourceKeys(mv, start) ==
    {mv.sourceKeys[i] :
        i \in start..BatchEnd(start, mv.batchSize, Len(mv.sourceKeys))}

\* n objects were Put into the source bucket; MoveObjects is called with
\* their keys, the destination keys and the bucket's batch size.
MoveCallOf(n, batchSize) ==
    [sourceKeys |-> [i \in 1..n |-> SourceKey(i)],
     destKeys |-> [i \in 1..n |-> DestKey(i)],
     batchSize |-> batchSize,
     src |-> [k \in {SourceKey(i) : i \in 1..n} |-> Data(k[2])],
     dst |-> << >>,
     start |-> 1,
     next |-> 1,
     failed |-> FALSE,
     catcher |-> EmptyBag,
     copies |-> << >>,
     removes |-> << >>,
     pc |-> "copy",
     result |-> EmptyBag]

InitMove ==
    /\ NoSync
    /\ NoRetrieve
    /\ op = "move"
    /\ keyCall = NoKeyCall
    /\ NoOther
    /\ move \in {MoveCallOf(n, batchSize) : n \in 0..MaxKeys,
                                            batchSize \in 1..MaxBatchSize}

InMove == op = "move"

MovePairs == Len(move.sourceKeys)

\* The next pair of the batch is copied into destBucket; the Copy succeeds
\* or fails, and a failure is added to the errors of the call. The batch goes
\* on with its remaining pairs either way.
MoveCopy ==
    /\ InMove
    /\ move.pc = "copy"
    /\ move.next <= BatchEnd(move.start, move.batchSize, MovePairs)
    /\ \E ok \in BOOLEAN :
        LET source == move.sourceKeys[move.next]
            dest == move.destKeys[move.next]
        IN  /\ ok => source \in Names(move.src)
            /\ move' = [move EXCEPT
                 !.dst = IF ok THEN Written(@, dest, move.src[source]) ELSE @,
                 !.failed = @ \/ ~ok,
                 !.catcher = IF ok THEN @ ELSE Add(@, ErrCopy(source)),
                 !.copies = Append(@, [batch |-> move.start,
                                       source |-> source,
                                       dest |-> dest,
                                       ok |-> ok]),
                 !.next = @ + 1]
    /\ UNCHANGED <<syncVars, pullVars, pushVars, credVars, fsVars, op,
                   keyCall, otherVars>>

\* where the call goes on after a batch: the next batch, or the return
AfterBatch(mv) ==
    [mv EXCEPT !.start = mv.next,
               !.failed = FALSE,
               !.pc = IF mv.next > Len(mv.sourceKeys) THEN "resolve"
                      ELSE "copy"]

\* MoveRemoveMany without looking at the copies of the batch.
MoveRemoveManyWhateverCopies ==
    /\ InMove
    /\ move.pc = "copy"
    /\ move.next > BatchEnd(move.start, move.batchSize, MovePairs)
    /\ move.start <= MovePairs
    /\ \E ok \in BOOLEAN :
        \E gone \in SUBSET BatchSourceKeys(move, move.start) :
            /\ ok => gone = BatchSourceKeys(move, move.start)
            /\ move' = [AfterBatch(move) EXCEPT
                 !.src = Without(@, gone),
                 !.catcher = IF ok THEN @
                             ELSE Add(@, ErrRemoveMany(move.start)),
                 !.removes = Append(@, [batch |-> move.start,
                                        keys |-> SubSeq(move.sourceKeys,
                                                    move.start, move.next - 1),
                                        ok |-> ok])]
    /\ UNCHANGED <<syncVars, pullVars, pushVars, credVars, fsVars, op,
                   keyCall, otherVars>>

\* Every Copy of the batch has succeeded: one RemoveMany is issued against
\* the source bucket for the batch's source keys. When it fails it may have
\* removed some of them, and its error is added to the errors of the call.
MoveRemoveMany ==
    /\ InMove
    /\ move.pc = "copy"
    /\ move.next > BatchEnd(move.start, move.batchSize, MovePairs)
    /\ move.start <= MovePairs
    /\ ~move.failed
    /\ \E ok \in BOOLEAN :
        \E gone \in SUBSET BatchSourceKeys(move, move.start) :
            /\ ok => gone = BatchSourceKeys(move, move.start)
            /\ move' = [AfterBatch(move) EXCEPT
                 !.src = Without(@, gone),
                 !.catcher = IF ok THEN @
                             ELSE Add(@, ErrRemoveMany(move.start)),
                 !.removes = Append(@, [batch |-> move.start,
                                        keys |-> SubSeq(move.sourceKeys,
                                                    move.start, move.next - 1),
                                        ok |-> ok])]
    /\ UNCHANGED <<syncVars, pullVars, pushVars, credVars, fsVars, op,
                   keyCall, otherVars>>

\* A Copy of the batch has failed: the batch's sources are left alone and
\* the call goes on with the next batch.
MoveSkipRemove ==
    /\ InMove
    /\ move.pc = "copy"
    /\ move.next > BatchEnd(move.start, move.batchSize, MovePairs)
    /\ move.start <= MovePairs
    /\ move.failed
    /\ move' = AfterBatch(move)
    /\ UNCHANGED <<syncVars, pullVars, pushVars, credVars, fsVars, op,
                   keyCall, otherVars>>

\* No pair is left (or none was given): the aggregated errors are returned.
MoveReturn ==
    /\ InMove
    /\ \/ move.pc = "resolve"
       \/ move.pc = "copy" /\ MovePairs = 0
    /\ move' = [move EXCEPT !.pc = "returned", !.result = Resolve(move.catcher)]
    /\ UNCHANGED <<syncVars, pullVars, pushVars, credVars, fsVars, op,
                   keyCall, otherVars>>

NextMove ==
    \/ MoveCopy
    \/ MoveRemoveMany
    \/ MoveSkipRemove
    \/ MoveReturn

(***************************************************************************)
(* The transfer engines: Writer, Put and Get of the small-object and the   *)
(* large-object bucket on one prefix of the object store, with the         *)
(* options Compress, IfNotExists and the SHA256 checksum.                  *)
(* Data is a sequence of bytes.                                            *)
(***************************************************************************)
Bytes == {0, 1}

\* the data of at most n bytes
Payloads(n) == UNION {[1..k -> Bytes] : k \in 0..n}

\* the first byte of a gzip stream
GzipHeader == 31

\* gzip: a header, then the data encoded (here: every byte inverted)
Gzip(data) == <<GzipHeader>> \o [i \in 1..Len(data) |-> 1 - data[i]]

IsGzip(body) == Len(body) >= 1 /\ body[1] = GzipHeader

Gunzip(body) == [i \in 1..(Len(body) - 1) |-> 1 - body[i + 1]]

\* the large-object engine: the stream is split into parts of partSize
\* bytes, the last one holding the rest
RECURSIVE SplitParts(_, _)
SplitParts(body, partSize) ==
    IF Len(body) <= partSize THEN <<body>>
    ELSE <<SubSeq(body, 1, partSize)>>
            \o SplitParts(SubSeq(body, partSize + 1, Len(body)), partSize)

\* the finalize call: the object is its parts in order
RECURSIVE JoinParts(_)
JoinParts(parts) ==
    IF parts = << >> THEN << >> ELSE Head(parts) \o JoinParts(Tail(parts))

\* sha256 of the data, and the checksum of an object stored without one
Sha256(data) == [alg |-> "sha256", of |-> data]
NoChecksum == [alg |-> "none", of |-> << >>]

\* S3Options of a bucket on the prefix: the buckets of one test differ in
\* Compress only.
BucketOptions == [compress : BOOLEAN]

\* What a commit of data stores: caller bytes -> compression -> engine. The
\* field wrote keeps what the caller wrote, for the properties.
ObjectOf(st, opts, data) ==
    LET stream == IF opts.compress THEN Gzip(data) ELSE data
        body == IF st.engine = "large"
                THEN JoinParts(SplitParts(stream, st.partSize))
                ELSE stream
    IN  [body |-> body,
         encoding |-> IF opts.compress THEN "gzip" ELSE "identity",
         checksum |-> IF st.uploadChecksumSHA256 THEN Sha256(body)
                      ELSE NoChecksum,
         wrote |-> data]

NoObject ==
    [body |-> << >>, encoding |-> "none", checksum |-> NoChecksum,
     wrote |-> << >>]

ObjectKeys == {"key"}

\* the Close calls that are followed on one writer
ClosesPerWriter == 2

NilS3Err == [kind |-> "nil", expected |-> NoChecksum, received |-> NoChecksum]
ErrNotFound ==
    [kind |-> "not found", expected |-> NoChecksum, received |-> NoChecksum]
ErrAlreadyExists ==
    [kind |-> "already exists", expected |-> NoChecksum,
     received |-> NoChecksum]
\* "s3 file missing SHA256 checksum"
ErrMissingChecksum(expected) ==
    [kind |-> "missing checksum", expected |-> expected,
     received |-> NoChecksum]
\* "SHA256 checksum verification failed: expected '%s' but received from s3
\* '%s'"
ErrChecksumMismatch(expected, received) ==
    [kind |-> "checksum mismatch", expected |-> expected,
     received |-> received]

\* no Writer was obtained yet; closes counts the Close calls on the writer,
\* closeErr is what the last of them returned
NoWriter ==
    [state |-> "none", key |-> "", opts |-> [compress |-> FALSE],
     buffer |-> << >>, closes |-> 0, closeErr |-> NilS3Err]

NoGet ==
    [called |-> FALSE, key |-> "", opts |-> [compress |-> FALSE],
     body |-> << >>, err |-> NilS3Err]

\* fileData of TestChecksumSHA256, whose checksum the bucket expects
FileData0 == <<0>>

\* expectedChecksumSHA256: none (no enforcement), or the checksum of fileData
ExpectedChecksums == {NoChecksum, Sha256(FileData0)}

\* A prefix without objects; the buckets on it are small-object or
\* large-object ones, with or without IfNotExists, uploadChecksumSHA256 and
\* expectedChecksumSHA256.
InitS3 ==
    /\ NoSync
    /\ NoRetrieve
    /\ op = "s3"
    /\ keyCall = NoKeyCall
    /\ move = NoMove
    /\ ruleCall = NoRuleCall
    /\ s3 \in [engine : {"small", "large"},
               partSize : 1..MaxPartSize,
               ifNotExists : BOOLEAN,
               uploadChecksumSHA256 : BOOLEAN,
               expectedChecksumSHA256 : ExpectedChecksums,
               objects : {<< >>},
               writer : {NoWriter},
               got : {NoGet}]

InS3 == op = "s3"

\* The conditional write of IfNotExists: the commit fails when the key
\* holds an object.
CommitFails(st, key) == st.ifNotExists /\ key \in Names(st.objects)

\* bucket.Writer(ctx, key): a new writer, the one before is dropped.
S3Writer(key, opts) ==
    /\ InS3
    /\ s3' = [s3 EXCEPT !.writer =
                [NoWriter EXCEPT !.state = "open", !.key = key, !.opts = opts]]
    /\ UNCHANGED <<syncVars, pullVars, pushVars, credVars, fsVars, op,
                   keyCall, move, ruleCall>>

\* writer.Write(chunk): the bytes are buffered, nothing reaches the store;
\* the call succeeds, also after a Close.
S3Write(chunk) ==
    /\ InS3
    /\ s3.writer.state = "open"
    /\ Len(chunk) >= 1
    /\ Len(s3.writer.buffer) + Len(chunk) <= MaxPayload
    /\ s3' = [s3 EXCEPT !.writer.buffer = @ \o chunk]
    /\ UNCHANGED <<syncVars, pullVars, pushVars, credVars, fsVars, op,
                   keyCall, move, ruleCall>>

\* S3Close without the conditional write of IfNotExists.
S3CloseUnconditional ==
    /\ InS3
    /\ s3.writer.state = "open"
    /\ s3.writer.closes < ClosesPerWriter
    /\ LET w == s3.writer
       IN  \E keep \in BOOLEAN :
             s3' = [s3 EXCEPT
                      !.objects = Written(@, w.key,
                                          ObjectOf(s3, w.opts, w.buffer)),
                      !.writer.closes = @ + 1,
                      !.writer.closeErr = NilS3Err,
                      !.writer.buffer = IF keep THEN @ ELSE << >>]
    /\ UNCHANGED <<syncVars, pullVars, pushVars, credVars, fsVars, op,
                   keyCall, move, ruleCall>>

\* writer.Close(): the commit. On an IfNotExists bucket it fails when the
\* key holds an object, and the object stays as it is. What the writer
\* holds after a successful Close is not specified: all it was given, or
\* nothing.
S3Close ==
    /\ InS3
    /\ s3.writer.state = "open"
    /\ s3.writer.closes < ClosesPerWriter
    /\ LET w == s3.writer
           fails == CommitFails(s3, w.key)
       IN  \E keep \in BOOLEAN :
             /\ fails => keep
             /\ s3' = [s3 EXCEPT
                      !.objects = IF fails THEN @
                                  ELSE Written(@, w.key,
                                         ObjectOf(s3, w.opts, w.buffer)),
                      !.writer.closes = @ + 1,
                      !.writer.closeErr = IF fails THEN ErrAlreadyExists
                                          ELSE NilS3Err,
                      !.writer.buffer = IF keep THEN @ ELSE << >>]
    /\ UNCHANGED <<syncVars, pullVars, pushVars, credVars, fsVars, op,
                   keyCall, move, ruleCall>>

\* bucket.Put(ctx, key, reader): the whole of data is committed at once.
S3Put(key, opts, data) ==
    /\ InS3
    /\ ~CommitFails(s3, key)
    /\ s3' = [s3 EXCEPT
                !.objects = Written(@, key, ObjectOf(s3, opts, data))]
    /\ UNCHANGED <<syncVars, pullVars, pushVars, credVars, fsVars, op,
                   keyCall, move, ruleCall>>

\* ChecksumError with a stored checksum that is not compared.
ChecksumErrorPresenceOnly(st, object) ==
    IF st.expectedChecksumSHA256 = NoChecksum THEN NilS3Err
    ELSE IF object.checksum = NoChecksum
         THEN ErrMissingChecksum(st.expectedChecksumSHA256)
    ELSE NilS3Err

\* The error of a Get of the object: with a checksum expected, the stored
\* checksum is asked for and must be there and equal.
ChecksumError(st, object) ==
    IF st.expectedChecksumSHA256 = NoChecksum THEN NilS3Err
    ELSE IF object.checksum = NoChecksum
         THEN ErrMissingChecksum(st.expectedChecksumSHA256)
    ELSE IF object.checksum # st.expectedChecksumSHA256
         THEN ErrChecksumMismatch(st.expectedChecksumSHA256, object.checksum)
    ELSE NilS3Err

\* ReadBody that hands out what is stored, never decompressing.
ReadBodyAsStored(opts, object) == object.body

\* What the reader of a Get yields: a bucket with Compress decompresses an
\* object that was stored compressed and passes on any other one.
ReadBody(opts, object) ==
    IF opts.compress /\ object.encoding = "gzip" THEN Gunzip(object.body)
    ELSE object.body

\* bucket.Get(ctx, key) and reading all of its reader (GetToWriter for the
\* large-object bucket)
S3Get(key, opts) ==
    /\ InS3
    /\ LET found == key \in Names(s3.objects)
           object == IF found THEN s3.objects[key] ELSE NoObject
           failure == IF ~found THEN ErrNotFound
                      ELSE ChecksumError(s3, object)
       IN  s3' = [s3 EXCEPT !.got =
                    [called |-> TRUE, key |-> key, opts |-> opts,
                     body |-> IF failure = NilS3Err
                              THEN ReadBody(opts, object)
                              ELSE << >>,
                     err |-> failure]]
    /\ UNCHANGED <<syncVars, pullVars, pushVars, credVars, fsVars, op,
                   keyCall, move, ruleCall>>

NextS3 ==
    \/ \E key \in ObjectKeys, opts \in BucketOptions : S3Writer(key, opts)
    \/ \E chunk \in Payloads(MaxPayload) : S3Write(chunk)
    \/ S3Close
    \/ \E key \in ObjectKeys, opts \in BucketOptions,
          data \in Payloads(MaxPayload) : S3Put(key, opts, data)
    \/ \E key \in ObjectKeys, opts \in BucketOptions : S3Get(key, opts)

(***************************************************************************)
(* Lifecycle rules: FindMatchingRule and extractPrefixHierarchy.           *)
(* A string is the sequence of its characters.                             *)
(***************************************************************************)
\* the characters of file keys and rule prefixes: a letter and the slash
KeyChars == {"a", "/"}

KeyStrings(n) == UNION {[1..k -> KeyChars] : k \in 0..n}

\* the rules of a list: the ID of a rule is its place in the list
LifecycleRules ==
    [Prefix : KeyStrings(MaxLen), Status : {"Enabled", "Disabled"}]

RuleLists == UNION {[1..n -> LifecycleRules] : n \in 0..MaxRules}

\* file keys are one character longer than the longest rule prefix
FileKeys == KeyStrings(MaxLen + 1)

\* for i := len(fileKey) - 1; i >= 0; i-- { if fileKey[i] == '/' {
\*     prefixes = append(prefixes, fileKey[:i+1]) } }
RECURSIVE SlashPrefixes(_, _)
SlashPrefixes(fileKey, i) ==
    IF i = 0 THEN << >>
    ELSE (IF fileKey[i] = "/" THEN <<SubSeq(fileKey, 1, i)>> ELSE << >>)
            \o SlashPrefixes(fileKey, i - 1)

\* then the empty prefix is appended
extractPrefixHierarchy(fileKey) ==
    Append(SlashPrefixes(fileKey, Len(fileKey)), << >>)

\* RuleMatches that looks at the prefix only.
RuleMatchesWhateverStatus(rule, prefix) == rule.Prefix = prefix

\* rule.Status == "Enabled" && rule.Prefix == prefix
RuleMatches(rule, prefix) == rule.Status = "Enabled" /\ rule.Prefix = prefix

\* for i := range rules: the place of the first rule from i on that
\* matches the prefix, 0 when there is none
RECURSIVE FirstMatch(_, _, _)
FirstMatch(rules, prefix, i) ==
    IF i > Len(rules) THEN 0
    ELSE IF RuleMatches(rules[i], prefix) THEN i
    ELSE FirstMatch(rules, prefix, i + 1)

\* for _, prefix := range prefixes: the first match of the first prefix
\* that has one, 0 when none has
RECURSIVE FirstOverPrefixes(_, _, _)
FirstOverPrefixes(rules, prefixes, j) ==
    IF j > Len(prefixes) THEN 0
    ELSE IF FirstMatch(rules, prefixes[j], 1) # 0
         THEN FirstMatch(rules, prefixes[j], 1)
    ELSE FirstOverPrefixes(rules, prefixes, j + 1)

\* The result is the place in rules of the rule pointed to, 0 for nil.
FindMatchingRule(rules, fileKey) ==
    IF Len(rules) = 0 THEN 0
    ELSE FirstOverPrefixes(rules, extractPrefixHierarchy(fileKey), 1)

InitRule ==
    /\ NoSync
    /\ NoRetrieve
    /\ op = "rule"
    /\ keyCall = NoKeyCall
    /\ move = NoMove
    /\ s3 = NoS3
    /\ ruleCall \in [rules : RuleLists, fileKey : FileKeys,
                     returned : {FALSE}, prefixes : {<< >>}, result : {0}]

\* the call returns
FindMatchingRuleReturn ==
    /\ op = "rule"
    /\ ~ruleCall.returned
    /\ ruleCall' = [ruleCall EXCEPT
                      !.returned = TRUE,
                      !.prefixes = extractPrefixHierarchy(ruleCall.fileKey),
                      !.result = FindMatchingRule(ruleCall.rules,
                                                  ruleCall.fileKey)]
    /\ UNCHANGED <<syncVars, pullVars, pushVars, credVars, fsVars, op,
                   keyCall, move, s3>>

NextRule == FindMatchingRuleReturn

vars == <<syncVars, pullVars, pushVars, credVars, fsVars, op, restVars>>

Spec == InitPull /\ [][NextPull]_vars

PushSpec == InitPush /\ [][NextPush]_vars

CredSpec == InitCred /\ [][NextCred]_vars

\* calls of createAssumeRoleCacheKey
KeySpec == InitKey /\ [][NextKey]_vars

\* one call of MoveObjects
MoveSpec == InitMove /\ [][NextMove]_vars

\* Writer, Put and Get calls on one prefix of the object store
S3Spec == InitS3 /\ [][NextS3]_vars

\* calls of FindMatchingRule
RuleSpec == InitRule /\ [][NextRule]_vars

\* Retrieve calls on a cache that was seeded.
SeededSpec == InitSeeded /\ [][NextCred]_vars

\* The steps of each goroutine of a Pull. A send on an unbuffered channel is
\* a step of the sender and of the receiver.
PullMainStep == PullListFails \/ PullStart \/ PullReturn

ProducerStep ==
    \/ ProducerNextItem
    \/ ProducerNextWithErr
    \/ ProducerNextFalse
    \/ ProducerCanceled
    \/ \E w \in Workers : HandItem(w)

WorkerStep(w) ==
    \/ HandItem(w)
    \/ WorkerItemsClosed(w)
    \/ WorkerRelFails(w)
    \/ WorkerDownloadCall(w)
    \/ WorkerDownloadReturn(w)
    \/ WorkerCanceled(w)
    \/ PublishKey(w)

DeleterStep ==
    \/ DeleterSkip
    \/ DeleterRemoveCall
    \/ DeleterRemoveReturn
    \/ \E w \in Workers : PublishKey(w)

\* a step of Pull or of one of its goroutines
PullStep ==
    \/ PullMainStep
    \/ ProducerStep
    \/ \E w \in Workers : WorkerStep(w)
    \/ CloseToDelete
    \/ DeleterStep

\* The Pull calls whose scheduling is looked at: those from the shorter
\* remote with dryRun off (the deleter then skips the removal or calls
\* RemoveMany, as deleteOnSync says).
InitFairPull == InitPull /\ remote = P(FALSE, <<"r">>) /\ ~dryRun

\* A Pull in which, as long as some goroutine can take a step, one does:
\* the scheduler runs what can run, and List, Next, Download and RemoveMany
\* calls return.
FairSpec == InitFairPull /\ [][NextPull]_vars /\ WF_vars(PullStep)

\* One call of Push or of Pull, and a Pull that follows a Push.
InitSync == InitPush \/ InitPull

NextSync ==
    \/ InPush /\ NextPush
    \/ PullAfterPush
    \/ ~InPush /\ NextPull

SyncSpec == InitSync /\ [][NextSync]_vars

(***************************************************************************)
(* Properties of parallel Pull (specification Spec).                       *)
(***************************************************************************)
DownloadsReturned == BagToSet(dlReturned)

RemovedKeys == UNION {{rmCalls[i][j] : j \in 1..Len(rmCalls[i])} :
                        i \in 1..Len(rmCalls)}

\* C1: every key handed to RemoveMany has a Download that returned success
\* before the RemoveMany call was made; a key whose Download failed, or whose
\* relative path could not be computed, is in no RemoveMany call.
C1_RemoveOnlyAfterDownload ==
    \A k \in RemovedKeys :
        /\ \E r \in DownloadsReturned : r.key = k /\ r.ok
        /\ ~\E r \in DownloadsReturned : r.key = k /\ ~r.ok
        /\ ~HasErr(catcher, ErrRel(k))
        /\ ~HasErr(catcher, ErrDownload(k))

\* A RemoveMany call with a key in it was made in a Pull in which the
\* Download of another key failed.
C1_Witness ==
    /\ RemovedKeys # {}
    /\ \E r \in DownloadsReturned : ~r.ok

\* The local file of an item whose name lies under remote: local followed by
\* what the name has after remote.
IsUnder(base, name) ==
    /\ base.abs = name.abs
    /\ Len(base.segs) <= Len(name.segs)
    /\ SubSeq(name.segs, 1, Len(base.segs)) = base.segs

LocalUnder(name) ==
    P(local.abs,
      local.segs \o SubSeq(name.segs, Len(remote.segs) + 1, Len(name.segs)))

Yielded == {listing[i] : i \in 1..iterIdx}

\* C4: a Pull with at least one worker that returned nil, its context never
\* canceled, has by then issued exactly one Download per item the iterator
\* produced, with the item's own key and the local path made of local and
\* the item's path relative to remote, and each has returned; the iterator
\* was driven to the end of the listing.
C4_PullDownloadsEachItemOnce ==
    (size >= 1 /\ ~ctxDone /\ mainPc = "returned" /\ result = EmptyBag) =>
        /\ iterErr \/ iterIdx = Len(listing)
        /\ BagCardinality(dlStarted) = iterIdx
        /\ BagCardinality(dlReturned) = iterIdx
        /\ \A k \in Yielded :
            \E c \in BagToSet(dlStarted) :
                /\ c.key = k
                /\ CopiesIn(c, dlStarted) = 1
                /\ c.local = Join(local, Rel(remote, k).path)
                /\ IsUnder(remote, k) => c.local = LocalUnder(k)
                /\ CopiesIn([key |-> k, local |-> c.local, ok |-> TRUE],
                            dlReturned) = 1

\* A Pull of two items under remote returned nil after downloading them to
\* two different local files.
C4_Witness ==
    /\ size >= 1 /\ ~ctxDone /\ mainPc = "returned" /\ result = EmptyBag
    /\ iterIdx = 2
    /\ \A k \in Yielded : IsUnder(remote, k)
    /\ Cardinality({c.local : c \in BagToSet(dlStarted)}) = 2

\* C5: when Pull has returned with its context not canceled and at least one
\* worker, and nothing failed in the call but Downloads, every item the
\* iterator produced has had its Download call.
C5_NoAbortOnDownloadFailure ==
    (/\ size >= 1 /\ ~ctxDone /\ mainPc = "returned" /\ ~iterErr
     /\ \E r \in DownloadsReturned : ~r.ok
     /\ \A e \in BagToSet(catcher) : e.kind = "download") =>
        \A k \in Yielded :
            Rel(remote, k).ok => \E c \in BagToSet(dlStarted) : c.key = k

DownloadedKeys == {r.key : r \in {d \in DownloadsReturned : d.ok}}

\* C14: a Pull calls RemoveMany at most once, and only with deleteOnSync on
\* and dryRun off; when it does, every worker has returned, no Download is
\* in flight and toDelete is closed, and nothing is downloaded or published
\* afterwards; the key list is the deleter's list, holds no key twice, and,
\* the context not having been canceled, holds exactly the keys whose
\* Download returned success in this Pull.
C14_OneRemoveManyAfterWorkers ==
    /\ [](/\ Len(rmCalls) <= 1
          /\ rmCalls # <<>> =>
                /\ deleteOnSync /\ ~dryRun
                /\ \A w \in Workers : wpc[w] = "done"
                /\ toDeleteClosed
                /\ BagCardinality(dlStarted) = BagCardinality(dlReturned)
                /\ rmCalls[1] = keys
                /\ \A i, j \in 1..Len(keys) : i # j => keys[i] # keys[j]
                /\ {keys[i] : i \in 1..Len(keys)} \subseteq DownloadedKeys
                /\ ~ctxDone =>
                    {keys[i] : i \in 1..Len(keys)} = DownloadedKeys)
    /\ [][rmCalls # <<>> => /\ rmCalls' = rmCalls
                            /\ keys' = keys
                            /\ dlStarted' = dlStarted
                            /\ dlReturned' = dlReturned]_vars

\* RemoveMany was called with the keys of two downloaded objects in a Pull
\* with two workers whose context was not canceled.
C14_Witness ==
    /\ size = 2 /\ ~ctxDone
    /\ Len(rmCalls) = 1 /\ Len(rmCalls[1]) = 2
    /\ delPc = "done"

\* Pull has returned and no goroutine it started is left.
PullTerminated ==
    /\ mainPc = "returned"
    /\ \/ HasErr(result, ErrList)
       \/ /\ prodPc = "done"
          /\ \A w \in Workers : wpc[w] = "done"
          /\ toDeleteClosed
          /\ delPc = "done"

\* C15: once the context of a Pull is canceled, with every goroutine
\* scheduled and every List, Next, Download and RemoveMany call returning,
\* Pull returns and the producer, every worker, the closer of toDelete and
\* the deleter terminate.
C15_CanceledPullTerminates == ctxDone ~> PullTerminated

\* A Pull with a worker has terminated after the cancellation took the
\* producer out of its send and a worker out of its send on toDelete.
C15_Witness ==
    /\ ctxDone /\ PullTerminated /\ size >= 1
    /\ prodPc = "done"
    /\ CopiesIn(ErrCanceled, catcher) >= 2

\* C16: once the context is canceled, no worker is handed a further item
\* and no Download call is started.
C16_NoNewDownloadAfterCancel ==
    [][ctxDone => (witem' = witem /\ dlStarted' = dlStarted)]_vars

\* C27: a Pull that has returned, its context not canceled, after its
\* listing iterator stopped with an error has returned an error that
\* includes the listing error.
C27_PullReportsListingError ==
    mainPc = "returned" /\ iterErr /\ ~ctxDone => HasErr(result, ErrIter)

\* C32: with the context not canceled, the producer is never in its select,
\* sending an item on the items channel, when every worker has exited and
\* Pull has returned: nothing is left to receive the item.
C32_ProducerNotLeftBlocked ==
    ~(/\ ~ctxDone
      /\ mainPc = "returned"
      /\ prodPc = "select"
      /\ \A w \in Workers : wpc[w] = "done")

\* C34: a Pull that has returned with its deleter not finished, so out of
\* the <-ctx.Done() case of its final select, has returned an error that
\* holds the cancellation error of the context.
C34_CanceledPullReturnsContextError ==
    (mainPc = "returned" /\ prodPc # "idle" /\ delPc # "done") =>
        ctxDone /\ HasErr(result, ErrCanceled)

\* C35: once Pull has returned, no Download call and no RemoveMany call is
\* started.
C35_NoBucketCallAfterReturn ==
    [][mainPc = "returned" => (dlStarted' = dlStarted /\ rmCalls' = rmCalls)]_vars

\* the items whose relative path a worker could not compute
RelFailed ==
    {witem[w] : w \in {v \in Workers : /\ wpc[v] = "done"
                                       /\ witem[v] # NoItem
                                       /\ ~Rel(remote, witem[v]).ok}}

DownloadFailed == {r.key : r \in {d \in DownloadsReturned : ~d.ok}}

\* a RemoveMany call has returned and left one of its keys in the bucket
RemoveFellShort ==
    /\ rmCalls # <<>>
    /\ delPc = "done"
    /\ \E k \in RemovedKeys : k \in Names(store)

C31_CanceledPushOnlyReturnsWalkError ==
    [][/\ (mainPc = "walk" /\ ctxDone) =>
            /\ mainPc' = "returned"
            /\ HasErr(result', ErrWalk)
            /\ upStarted' = EmptyBag
            /\ localRemoved' = 0
            /\ tree' = tree
       /\ mainPc = "returned" =>
            /\ mainPc' = "returned"
            /\ result' = result
            /\ upStarted' = upStarted
            /\ localRemoved' = localRemoved
            /\ tree' = tree]_vars

\* A Push with deleteOnSync on and dryRun off, workers and a file to push
\* has returned the error of the walk under a canceled context; the file
\* is still there and no Upload was made.
C31_Witness ==
    /\ op = "push" /\ mainPc = "returned" /\ ctxDone
    /\ deleteOnSync /\ ~dryRun /\ size >= 1
    /\ HasErr(result, ErrWalk)
    /\ files # <<>>
    /\ Below(local, tree) # {}
    /\ upStarted = EmptyBag
    /\ localRemoved = 0

\* C30: once the context is canceled, no worker of a Push starts a further
\* Upload call.
C30_NoNewUploadAfterCancel ==
    [][ctxDone => upStarted' = upStarted]_vars

\* the workers that are inside a call: pc is "upload" in a Push, "download"
\* in a Pull
Calling(pc) == {w \in Workers : wpc[w] = pc}

\* the number of calls that have been started and have not returned
InFlight(started, returned) ==
    BagCardinality(started) - BagCardinality(returned)

\* C29: at every moment the Upload calls in flight are as many as the workers
\* that are inside Upload, each of them in the one call for the file it
\* holds, so at most one per worker and at most b.size in all; and likewise
\* the Download calls in a Pull.
C29_InFlightBoundedByWorkers ==
    /\ InFlight(upStarted, upReturned) = Cardinality(Calling("upload"))
    /\ InFlight(dlStarted, dlReturned) = Cardinality(Calling("download"))
    /\ InFlight(upStarted, upReturned) <= size
    /\ InFlight(dlStarted, dlReturned) <= size
    /\ \A v, w \in Calling("upload") \cup Calling("download") :
          v # w => witem[v] # witem[w]

\* In the Pull that follows a Push whose two Uploads have returned, two
\* workers are inside Download at once.
C29_Witness ==
    /\ size = 2
    /\ BagCardinality(upReturned) = 2
    /\ InFlight(dlStarted, dlReturned) = 2

(***************************************************************************)
UploadsReturned == BagToSet(upReturned)

PushJoined == mainPc \in {"joined", "resolve", "returned"}

\* C2: a Push that has returned after an Upload call returned an error has
\* returned a non-nil error.
C2_PushReportsUploadError ==
    (mainPc = "returned" /\ \E r \in UploadsReturned : ~r.ok) =>
        result # EmptyBag

FileSet == {files[i] : i \in 1..Len(files)}

Busy(w) == wpc[w] \in {"upload", "check", "add"}

\* C3: with at least one worker and dryRun off, no two workers hold the same
\* file, no Upload is issued twice, and once the workers have been joined
\* (so before Push returns) every file of the walk has had exactly one Upload
\* call, with remote followed by the file's path as the key and local
\* followed by it as the local path, and every call has returned, whether or
\* not some of them failed.
C3_PushUploadsEachFileOnce ==
    (size >= 1 /\ ~dryRun /\ ~HasErr(result, ErrWalk)) =>
        /\ \A v, w \in Workers :
            (v # w /\ Busy(v) /\ Busy(w)) => witem[v] # witem[w]
        /\ \A c \in BagToSet(upStarted) : CopiesIn(c, upStarted) = 1
        /\ PushJoined =>
            /\ BagCardinality(upStarted) = Len(files)
            /\ BagCardinality(upReturned) = Len(files)
            /\ \A f \in FileSet :
                \E c \in BagToSet(upStarted) :
                    /\ c.key = P(remote.abs, remote.segs \o f.segs)
                    /\ c.local = P(local.abs, local.segs \o f.segs)
                    /\ \E ok \in BOOLEAN :
                        CopiesIn([key |-> c.key, local |-> c.local,
                                  ok |-> ok], upReturned) = 1

\* A Push of two files has returned; one of its Uploads failed and the other
\* one succeeded.
C3_Witness ==
    /\ size >= 1 /\ ~dryRun /\ mainPc = "returned"
    /\ Len(files) = 2
    /\ \E r \in UploadsReturned : ~r.ok
    /\ \E r \in UploadsReturned : r.ok

\* what the file at a path of the local tree held when Push was called
OriginalContent(path) ==
    FileContent(CHOOSE f \in FileSet : Join(local, f) = path)

PushRemoved == localRemoved >= 1

\* C11: with deleteOnSync on and dryRun off, a Push that got past the walk
\* has removed the local tree exactly once when it returns, also when
\* uploads failed, and nothing is left in local when the removal succeeded;
\* the removal happens with every worker returned, no Upload in flight and
\* no file name left for a worker; after it no Upload is started and the
\* bucket does not change; and every object an Upload has written holds
\* what the local file held, before and after the removal.
C11_PushRemovesLocalTreeOnceAfterJoin ==
    /\ [](/\ localRemoved <= 1
          /\ PushRemoved =>
                /\ deleteOnSync /\ ~dryRun
                /\ \A w \in Workers : wpc[w] = "done"
                /\ BagCardinality(upStarted) = BagCardinality(upReturned)
                /\ size >= 1 => inCh = <<>>
          /\ (/\ mainPc = "returned" /\ ~HasErr(result, ErrWalk)
              /\ deleteOnSync /\ ~dryRun) =>
                /\ localRemoved = 1
                /\ ~HasErr(result, ErrRemoveAll) => Below(local, tree) = {}
          /\ \A r \in UploadsReturned :
                r.ok => /\ r.key \in Names(store)
                        /\ store[r.key] = OriginalContent(r.local))
    /\ [][(PushRemoved => /\ upStarted' = upStarted
                           /\ store' = store
                           /\ localRemoved' = localRemoved)
           /\ (tree' # tree => localRemoved' = localRemoved + 1)]_vars

\* A Push with deleteOnSync has returned after one Upload failed and another
\* one succeeded: the local tree is gone and the uploaded object is in the
\* bucket.
C11_Witness ==
    /\ mainPc = "returned" /\ deleteOnSync /\ ~dryRun
    /\ localRemoved = 1
    /\ Len(files) = 2 /\ Below(local, tree) = {}
    /\ \E r \in UploadsReturned : ~r.ok
    /\ \E r \in UploadsReturned : r.ok /\ r.key \in Names(store)

\* C12: after a Push with at least one worker, every file of the walk that
\* is gone from the local tree has had an Upload that returned success.
C12_RemovedOnlyAfterSuccessfulUpload ==
    (size >= 1 /\ mainPc = "returned") =>
        \A f \in FileSet :
            Join(local, f) \notin Names(tree) =>
                \E r \in UploadsReturned : r.local = Join(local, f) /\ r.ok

(***************************************************************************)
(* Properties of Push and Pull together (specification SyncSpec).          *)
(***************************************************************************)
Listed == {listing[i] : i \in 1..Len(listing)}

\* C13: under dryRun, whatever deleteOnSync is, no Upload is ever issued, the
\* local tree is not removed (during a Push every file of the walk is still
\* there with its content), RemoveMany is never called, and the bucket holds
\* what it held when the call began.
C13_DryRunModifiesNothing ==
    dryRun =>
        /\ upStarted = EmptyBag
        /\ localRemoved = 0
        /\ rmCalls = <<>>
        /\ delPc # "removing"
        /\ Names(store) = Listed
        /\ \A k \in Listed : store[k] = ObjectContent(k)
        /\ InPush =>
            \A f \in FileSet :
                /\ Join(local, f) \in Names(tree)
                /\ tree[Join(local, f)] = FileContent(f)

\* Under dryRun with deleteOnSync a Pull has returned: its deleter collected
\* the keys of two downloaded objects and finished.
C13_Witness ==
    /\ dryRun /\ deleteOnSync
    /\ mainPc = "returned" /\ delPc = "done"
    /\ Len(keys) = 2

\* The names below dir, relative to dir.
RelativeNames(dir, m) == {Rel(dir, p).path : p \in Below(dir, m)}

\* A Push of at least one file by at least one worker, and the Pull after it
\* if one was called, with deleteOnSync off and without a failing call so far.
CleanRoundTrip ==
    /\ size >= 1 /\ ~deleteOnSync
    /\ Len(files) >= 1
    /\ ~ctxDone /\ ~iterErr
    /\ result = EmptyBag
    /\ \A r \in UploadsReturned : r.ok
    /\ \A d \in DownloadsReturned : d.ok

PushDone == (InPush /\ mainPc = "returned") \/ ~InPush

PullDone == ~InPush /\ mainPc = "returned"

\* When the Push has returned the bucket holds below remote one object per
\* pushed file, at the file's relative path and with the file's content, and
\* the List of the Pull yields each of them once.
ListMatchesPushedTree ==
    /\ PushDone =>
          /\ RelativeNames(remote, store) = FileSet
          /\ \A f \in FileSet : store[Join(remote, f)] = FileContent(f)
    /\ ~InPush =>
          /\ Len(listing) = Cardinality(FileSet)
          /\ {Rel(remote, k).path : k \in Listed} = FileSet

\* When the Pull has returned, the directory it wrote to holds the relative
\* paths of the pushed files, each with the content of the pushed file.
PulledTreeMatchesPushedTree ==
    PullDone =>
        /\ RelativeNames(local, tree) = FileSet
        /\ \A f \in FileSet : tree[Join(local, f)] = FileContent(f)

\* C19 as stated, whatever dryRun is: after a Push without a failing call the
\* listing holds one item per pushed file, and the Pull recreates the tree.
C19_RoundTripWhateverDryRun ==
    CleanRoundTrip => ListMatchesPushedTree /\ PulledTreeMatchesPushedTree

\* C19: with dryRun off as well, after a Push without a failing call the
\* listing of remote holds exactly one item per pushed file at the same
\* relative path, and after the Pull without a failing call the directory
\* pulled into holds exactly the relative paths of the pushed files, each
\* with the content the pushed file had.
C19_RoundTrip ==
    CleanRoundTrip /\ ~dryRun =>
        ListMatchesPushedTree /\ PulledTreeMatchesPushedTree

\* A Pull into the new directory has returned after a Push of two files,
\* one of them in a subdirectory, with no failing call and dryRun off; both
\* files have been downloaded.
C19_Witness ==
    /\ CleanRoundTrip /\ ~dryRun /\ PullDone
    /\ Len(files) = 2
    /\ local = P(FALSE, <<"n">>)
    /\ Cardinality(DownloadedKeys) = 2

\* the errors of the calls a Push or a Pull makes itself, workers or not
OwnErrs == {ErrWalk, ErrRemoveAll, ErrList, ErrIter, ErrCanceled, ErrRemove}

Returned(g) == gpc[g] = "returned"

\* The cache held an entry for the call's cache key when the call took the
\* mutex.
CachedBefore(g) == call[g].key \in DOMAIN call[g].before

EntryBefore(g) == call[g].before[call[g].key]

\* That entry expires strictly later than the time the call read plus the
\* caller's minimumLifetime.
LongLived(g) ==
    CachedBefore(g) /\ EntryBefore(g).expires > call[g].tnow + call[g].min

\* C6: a Retrieve that found an entry expiring strictly later than now +
\* minimumLifetime returned exactly that entry with a nil error, did not
\* invoke the wrapped provider and left the cache as it was; so when the
\* entry was cached by an earlier Retrieve, the two calls invoked a provider
\* once in total and returned the same credentials.
C6_FreshEntryIsReturned ==
    \A g \in Goroutines :
        (Returned(g) /\ LongLived(g)) =>
            /\ call[g].ret = EntryBefore(g)
            /\ call[g].rerr = ""
            /\ call[g].invoked = 0
            /\ call[g].after = call[g].before
            /\ \A f \in Goroutines :
                (Returned(f) /\ f = EntryBefore(g).id) =>
                    /\ call[f].ret = call[g].ret
                    /\ call[f].invoked + call[g].invoked = 1

\* Two Retrieve calls have returned, the second of which found the
\* credentials the first one cached, fresh.
C6_Witness ==
    \E f, g \in Goroutines :
        /\ f # g /\ Returned(f) /\ Returned(g)
        /\ LongLived(g)
        /\ EntryBefore(g) = call[f].ret
        /\ call[f].invoked = 1
        /\ call[g].ret = call[f].ret

\* C7: a Retrieve that found no entry for its cache key, or one expiring at
\* or before now + minimumLifetime, invoked the wrapped provider exactly
\* once; the entry it found is gone; and when the provider succeeded its
\* result is what the cache holds under the key and what was returned.
C7_StaleOrAbsentEntryIsRefreshed ==
    \A g \in Goroutines :
        (Returned(g) /\ ~LongLived(g)) =>
            /\ call[g].invoked = 1
            /\ call[g].key \in DOMAIN call[g].after =>
                /\ call[g].after[call[g].key].id = g
                /\ call[g].rerr = ""
            /\ call[g].rerr = "" =>
                /\ call[g].ret = Creds(g, call[g].pexp)
                /\ call[g].key \in DOMAIN call[g].after
                /\ call[g].after[call[g].key] = call[g].ret
                /\ \A k \in DOMAIN call[g].before \ {call[g].key} :
                    k \in DOMAIN call[g].after
                    /\ call[g].after[k] = call[g].before[k]

\* A Retrieve found an entry expiring exactly at now + minimumLifetime and
\* returned other credentials, which the cache now holds.
C7_Witness ==
    \E g \in Goroutines :
        /\ Returned(g) /\ CachedBefore(g)
        /\ EntryBefore(g).expires = call[g].tnow + call[g].min
        /\ call[g].rerr = ""
        /\ call[g].ret # EntryBefore(g)
        /\ call[g].after[call[g].key] = call[g].ret

\* The wrapped provider was invoked by this call and returned an error.
ProviderFailed(g) == call[g].invoked = 1 /\ call[g].perr # ""

\* C8 as stated: a Retrieve whose wrapped provider failed while the cache
\* held an entry for the key returned that entry and no error.
C8_CachedEntryMasksProviderError ==
    \A g \in Goroutines :
        (Returned(g) /\ CachedBefore(g) /\ ProviderFailed(g)) =>
            /\ call[g].rerr = ""
            /\ call[g].ret = EntryBefore(g)

\* C8 as amended: an entry expiring strictly later than now +
\* minimumLifetime is returned with a nil error without the wrapped
\* provider being invoked, so that a failing provider goes unnoticed; an
\* entry within minimumLifetime of its expiry is evicted before the provider
\* is invoked, and when the provider then fails Retrieve returns the
\* provider's error, not the entry, and the entry stays evicted.
C8_OnlyFreshEntryMasksProviderError ==
    \A g \in Goroutines :
        (Returned(g) /\ CachedBefore(g)) =>
            IF EntryBefore(g).expires > call[g].tnow + call[g].min
            THEN /\ ~ProviderFailed(g)
                 /\ call[g].rerr = ""
                 /\ call[g].ret = EntryBefore(g)
            ELSE ProviderFailed(g) =>
                 /\ call[g].rerr = call[g].perr
                 /\ call[g].ret # EntryBefore(g)
                 /\ call[g].key \notin DOMAIN call[g].after

\* A Retrieve found an entry within minimumLifetime of its expiry, its
\* provider failed, and it returned the provider's error.
C8_Witness ==
    \E g \in Goroutines :
        /\ Returned(g) /\ CachedBefore(g) /\ ~LongLived(g)
        /\ ProviderFailed(g)
        /\ call[g].rerr = call[g].perr

\* C9: a Retrieve that found no entry for its cache key and whose wrapped
\* provider failed returned the provider's error itself and left the cache
\* as it was.
C9_ProviderErrorPropagates ==
    \A g \in Goroutines :
        (Returned(g) /\ ~CachedBefore(g) /\ ProviderFailed(g)) =>
            /\ call[g].rerr = call[g].perr
            /\ call[g].rerr \in ProviderErrs
            /\ call[g].after = call[g].before

\* A Retrieve on a cache without the key returned its provider's error.
C9_Witness ==
    \E g \in Goroutines :
        /\ Returned(g) /\ ~CachedBefore(g) /\ ProviderFailed(g)
        /\ call[g].rerr = "Uh-oh"

\* C36: a Retrieve that is about to return, or has returned, an error
\* leaves no entry under its cache key: while it still holds the mutex the
\* cache has none, and the cache it left is the one it found less the entry
\* under its key, so a different one when it found an entry.
C36_FailedRetrieveLeavesNoEntry ==
    \A g \in Goroutines :
        /\ (gpc[g] = "unlock" /\ call[g].rerr # "") =>
                call[g].key \notin DOMAIN credsCache
        /\ (Returned(g) /\ call[g].rerr # "") =>
                /\ call[g].key \notin DOMAIN call[g].after
                /\ call[g].after = MapDelete(call[g].before, call[g].key)
                /\ CachedBefore(g) => call[g].after # call[g].before

\* A Retrieve that found an entry under its key has returned an error and
\* left a cache without that entry.
C36_Witness ==
    \E g \in Goroutines :
        /\ Returned(g) /\ call[g].rerr # ""
        /\ CachedBefore(g)
        /\ call[g].key \notin DOMAIN call[g].after
        /\ call[g].after # call[g].before

\* the cache maps k to the same thing, or to nothing, in both
SameAt(k, c1, c2) ==
    /\ k \in DOMAIN c1 <=> k \in DOMAIN c2
    /\ k \in DOMAIN c1 => c1[k] = c2[k]

\* C37: the cache a Retrieve leaves differs from the cache it found at most
\* under its own cache key, whatever it returned; and while a Retrieve holds
\* the mutex the cache differs from the one it found at most under its key.
C37_OtherKeysUntouched ==
    \A g \in Goroutines :
        /\ Returned(g) =>
              \A k \in CacheKeys \ {call[g].key} :
                  SameAt(k, call[g].before, call[g].after)
        /\ credsCacheMutex = g =>
              \A k \in CacheKeys \ {call[g].key} :
                  SameAt(k, call[g].before, credsCache)

\* A Retrieve has found an entry under another key than its own, stored
\* credentials under its own key and left the other entry as it was.
C37_Witness ==
    \E g \in Goroutines :
        /\ Returned(g)
        /\ call[g].after # call[g].before
        /\ \E k \in CacheKeys \ {call[g].key} :
              /\ k \in DOMAIN call[g].before
              /\ k \in DOMAIN call[g].after
              /\ call[g].after[k] = call[g].before[k]

\* the goroutines whose Retrieve is inside s.provider.Retrieve(ctx)
InProvider == {g \in Goroutines : gpc[g] = "provider"}

\* the goroutines between Lock and Unlock
InRetrieve == {g \in Goroutines : gpc[g] \in {"check", "provider", "unlock"}}

\* C38: a Retrieve between Lock and Unlock, so also inside the wrapped
\* provider, holds the mutex and is the only one there: at most one call of
\* the wrapped provider is in flight; and while one is, no other Retrieve,
\* whatever its cache key, takes a step but to be called and block in Lock.
C38_MutexHeldAcrossProviderCall ==
    /\ [](/\ \A g \in InRetrieve : credsCacheMutex = g
          /\ Cardinality(InRetrieve) <= 1
          /\ Cardinality(InProvider) <= 1)
    /\ [][\A g \in InProvider : \A h \in Goroutines \ {g} :
              /\ gpc[h] \in {"idle", "lock", "returned"}
              /\ gpc'[h] = gpc[h] \/ (gpc[h] = "idle" /\ gpc'[h] = "lock")]_vars

\* A Retrieve is inside the wrapped provider while a Retrieve for another
\* cache key is blocked in Lock.
C38_Witness ==
    \E g, h \in Goroutines :
        /\ gpc[g] = "provider" /\ gpc[h] = "lock"
        /\ call[g].key # call[h].key
        /\ credsCacheMutex = g

\* Two calls found the same entry under the same cache key, g with the
\* smaller margin, each at a time from the entry's expiry less the larger
\* margin up to, and not at, its expiry less the smaller one.
SharedWindow(g, h) ==
    /\ Returned(g) /\ Returned(h)
    /\ call[g].key = call[h].key
    /\ CachedBefore(g) /\ CachedBefore(h)
    /\ EntryBefore(g) = EntryBefore(h)
    /\ call[g].min < call[h].min
    /\ \A t \in {call[g].tnow, call[h].tnow} :
        /\ EntryBefore(g).expires - call[h].min <= t
        /\ t < EntryBefore(g).expires - call[g].min

\* A call found an entry at a time from the entry's expiry less the margin
\* m2 up to, and not at, its expiry less the smaller margin m1.
InWindow(g, m1, m2) ==
    /\ Returned(g) /\ CachedBefore(g)
    /\ m1 < m2
    /\ EntryBefore(g).expires - m2 <= call[g].tnow
    /\ call[g].tnow < EntryBefore(g).expires - m1

\* C17: a Retrieve that found a cached entry in the window between two
\* margins m1 < m2 returned the entry with a nil error, did not invoke its
\* wrapped provider and left the cache alone when its provider's margin is
\* m1, and invoked its wrapped provider once, did not return the entry and
\* left the cache without it when its provider's margin is m2, whoever
\* cached the entry and with whatever margin; so two calls that found the
\* same entry in that window differ in this way.
C17_MarginIsPerCaller ==
    \A g \in Goroutines :
        \A m1, m2 \in MinLifetimes :
            InWindow(g, m1, m2) =>
                /\ call[g].min = m1 =>
                    /\ call[g].ret = EntryBefore(g)
                    /\ call[g].rerr = ""
                    /\ call[g].invoked = 0
                    /\ call[g].after = call[g].before
                /\ call[g].min = m2 =>
                    /\ call[g].invoked = 1
                    /\ call[g].ret # EntryBefore(g)
                    /\ call[g].key \in DOMAIN call[g].after =>
                        /\ call[g].after[call[g].key] # EntryBefore(g)
                        /\ call[g].after[call[g].key] = call[g].ret

\* Two calls found the seeded entry one time unit before its expiry: the
\* one with margin 0 returned it, the one with margin 1 returned what its
\* provider issued.
C17_Witness ==
    \E g, h \in Goroutines :
        /\ SharedWindow(g, h)
        /\ EntryBefore(g) \in Seeds
        /\ call[g].ret = EntryBefore(g)
        /\ call[h].rerr = "" /\ call[h].ret = Creds(h, call[h].pexp)

Callers(K) == {g \in Goroutines : gpc[g] # "idle" /\ call[g].key = K}

\* the credentials issued so far by provider calls made for cache key K
Issued(K) ==
    {call[g].ret : g \in {h \in Callers(K) :
                            /\ gpc[h] \in {"unlock", "returned"}
                            /\ call[h].invoked = 1 /\ call[h].rerr = ""}}

\* No provider call made for K has failed, and all credentials issued for K
\* expire strictly later than now + minimumLifetime for every caller that
\* found an entry.
IssuedOutliveCallers(K) ==
    /\ \A g \in Callers(K) : ~ProviderFailed(g)
    /\ \A c \in Issued(K) :
        \A g \in Callers(K) :
            call[g].tnow >= 0 => c.expires > call[g].tnow + call[g].min

\* C10: at most one goroutine is between Lock and Unlock, and it holds the
\* mutex; and for goroutines calling Retrieve with the same cache key on the
\* initially empty cache, as long as the issued credentials outlive every
\* caller's margin, the wrapped providers have been invoked at most once,
\* exactly once when a caller has returned, and all callers that returned
\* got the same credentials.
C10_ConcurrentRetrieveIssuesOnce ==
    /\ Cardinality(InRetrieve) <= 1
    /\ \A g \in InRetrieve : credsCacheMutex = g
    /\ InRetrieve = {} => credsCacheMutex = 0
    /\ \A K \in CacheKeys :
        IssuedOutliveCallers(K) =>
            /\ Cardinality({g \in Callers(K) : call[g].invoked = 1}) <= 1
            /\ (\E g \in Callers(K) : Returned(g)) =>
                Cardinality({g \in Callers(K) : call[g].invoked = 1}) = 1
            /\ \A f, g \in Callers(K) :
                (Returned(f) /\ Returned(g)) => call[f].ret = call[g].ret

\* Two goroutines called Retrieve with the same key, one was blocked in
\* Lock while the other one held the mutex, and both returned the same
\* issued credentials.
C10_Witness ==
    \E f, g \in Goroutines :
        /\ f # g /\ Returned(f) /\ Returned(g)
        /\ call[f].key = call[g].key
        /\ IssuedOutliveCallers(call[f].key)
        /\ call[g].waited
        /\ call[f].ret = call[g].ret
        /\ call[f].ret # ZeroCreds

(***************************************************************************)
(* Properties of the cache key (specification KeySpec).                    *)
(***************************************************************************)
HasSeparator(str) == \E i \in 1..Len(str) : str[i] = "|"

KeysReturned == \A i \in KeyCalls : keyCall[i].returned

\* C18: the key of a call with an external ID is the role ARN, then "|", then
\* the ID; without one it is the role ARN alone. Two calls whose role ARNs
\* hold no "|" return the same key only if their role ARNs are the same and
\* their external IDs are both absent or both present and the same.
C18_KeyIsInjective ==
    KeysReturned =>
        /\ \A i \in KeyCalls :
              LET c == keyCall[i] IN
              IF c.externalID.set
              THEN /\ Len(c.key) = Len(c.roleARN) + 1 + Len(c.externalID.s)
                   /\ SubSeq(c.key, 1, Len(c.roleARN)) = c.roleARN
                   /\ c.key[Len(c.roleARN) + 1] = "|"
                   /\ SubSeq(c.key, Len(c.roleARN) + 2, Len(c.key))
                          = c.externalID.s
              ELSE c.key = c.roleARN
        /\ \A i, j \in KeyCalls :
              /\ ~HasSeparator(keyCall[i].roleARN)
              /\ ~HasSeparator(keyCall[j].roleARN)
              /\ keyCall[i].key = keyCall[j].key
              => /\ keyCall[i].roleARN = keyCall[j].roleARN
                 /\ keyCall[i].externalID = keyCall[j].externalID

\* Both calls returned; the role ARNs are the same non-empty string without
\* "|", one call had no external ID and the other an empty one, and the keys
\* differ.
C18_Witness ==
    /\ KeysReturned
    /\ keyCall[1].roleARN = keyCall[2].roleARN
    /\ Len(keyCall[1].roleARN) >= 1
    /\ ~HasSeparator(keyCall[1].roleARN)
    /\ keyCall[1].externalID = NilID
    /\ keyCall[2].externalID = PtrTo(<< >>)
    /\ keyCall[1].key # keyCall[2].key

(***************************************************************************)
(* Properties of MoveObjects (specification MoveSpec).                     *)
(***************************************************************************)
CopiesMade == {move.copies[i] : i \in 1..Len(move.copies)}

RemovesMade == {move.removes[i] : i \in 1..Len(move.removes)}

CopiesOfBatch(start) == {c \in CopiesMade : c.batch = start}

MoveReturned == move.pc = "returned"

\* the first indices of the batches of the call
BatchStarts == {st \in 1..MovePairs : (st - 1) % move.batchSize = 0}

\* C20: a RemoveMany was issued for a batch only with a Copy made for every
\* pair of the batch and all of them successful, with the batch's source
\* keys, and once per batch; when a Copy of a batch failed no RemoveMany is
\* issued for the batch, its source objects are all still in the source
\* bucket, and the failure is among the errors of the call and, when the call
\* has returned, in its result; and the call returns only with a Copy made
\* for every pair of every batch and a RemoveMany issued for every batch
\* whose copies all succeeded.
C20_BatchIsolation ==
    /\ \A r \in RemovesMade :
          /\ {c.source : c \in CopiesOfBatch(r.batch)}
                = BatchSourceKeys(move, r.batch)
          /\ \A c \in CopiesOfBatch(r.batch) : c.ok
          /\ {r.keys[i] : i \in 1..Len(r.keys)}
                = BatchSourceKeys(move, r.batch)
    /\ \A i, j \in 1..Len(move.removes) :
          move.removes[i].batch = move.removes[j].batch => i = j
    /\ \A c \in CopiesMade :
          ~c.ok =>
              /\ \A r \in RemovesMade : r.batch # c.batch
              /\ \A k \in BatchSourceKeys(move, c.batch) :
                    k \in Names(move.src) /\ move.src[k] = Data(k[2])
              /\ BagIn(ErrCopy(c.source), move.catcher)
              /\ MoveReturned => BagIn(ErrCopy(c.source), move.result)
    /\ MoveReturned =>
          /\ Len(move.copies) = MovePairs
          /\ \A i \in 1..MovePairs :
                move.copies[i].source = move.sourceKeys[i]
          /\ \A st \in BatchStarts :
                (\A c \in CopiesOfBatch(st) : c.ok)
                    => \E r \in RemovesMade : r.batch = st

\* The call has returned an error: a Copy of its first batch failed, that
\* batch held more than one pair, and the sources of a later batch were
\* removed.
C20_Witness ==
    /\ MoveReturned
    /\ move.batchSize >= 2
    /\ \E c \in CopiesOfBatch(1) : ~c.ok
    /\ \E c \in CopiesOfBatch(1) : c.ok
    /\ \E r \in RemovesMade : r.batch > 1 /\ r.ok
    /\ move.result # EmptyBag

BatchesMade == {c.batch : c \in CopiesMade}

\* the least number of batches of at most batchSize pairs that hold n pairs
CeilDiv(n, batchSize) == (n + batchSize - 1) \div batchSize

\* C21: the pairs are copied in the order of the key lists, each with its own
\* destination key, and the i-th pair belongs to batch number
\* (i - 1) \div batchSize, so the batches are consecutive runs of the lists;
\* when the call has returned every pair has been copied exactly once, there
\* are ceil(n / batchSize) batches, every batch but the last holds batchSize
\* pairs and the last holds the remaining ones, at least one and at most
\* batchSize.
C21_ConsecutiveFixedSizeBatches ==
    /\ Len(move.copies) <= MovePairs
    /\ \A i \in 1..Len(move.copies) :
          /\ move.copies[i].source = move.sourceKeys[i]
          /\ move.copies[i].dest = move.destKeys[i]
          /\ move.copies[i].batch
                = move.batchSize * ((i - 1) \div move.batchSize) + 1
    /\ MoveReturned =>
          /\ Len(move.copies) = MovePairs
          /\ Cardinality(BatchesMade) = CeilDiv(MovePairs, move.batchSize)
          /\ \A b \in BatchesMade :
                LET pairs == Cardinality({i \in 1..Len(move.copies) :
                                             move.copies[i].batch = b})
                    last == \A c \in BatchesMade : c <= b
                IN  /\ pairs >= 1
                    /\ pairs <= move.batchSize
                    /\ ~last => pairs = move.batchSize
                    /\ last => pairs = MovePairs
                                 - move.batchSize * (Cardinality(BatchesMade) - 1)

\* The call has returned after three or more pairs in batches of two: more
\* than one batch, and a last batch that is not full.
C21_Witness ==
    /\ MoveReturned
    /\ move.batchSize = 2
    /\ MovePairs >= 3
    /\ MovePairs % 2 = 1
    /\ Cardinality(BatchesMade) >= 2

\* C22: when the call has returned without error, every destination key
\* holds in the destination bucket what its source key held in the source
\* bucket before the call, and no source key is left in the source bucket.
C22_MovedWhenNoError ==
    MoveReturned /\ move.result = EmptyBag =>
        \A i \in 1..MovePairs :
            /\ move.destKeys[i] \in Names(move.dst)
            /\ move.dst[move.destKeys[i]] = Data(i)
            /\ move.sourceKeys[i] \notin Names(move.src)

\* The call has returned without error after more than one batch, one of
\* them of more than one pair.
C22_Witness ==
    /\ MoveReturned /\ move.result = EmptyBag
    /\ move.batchSize >= 2
    /\ MovePairs > move.batchSize
    /\ Names(move.src) = {}

(***************************************************************************)
(* Properties of the transfer engines (specification S3Spec).              *)
(***************************************************************************)
\* a Get has just returned
GetReturns == s3'.got # s3.got

\* the object a returning Get was asked for
GotFound == s3'.got.key \in Names(s3.objects)

GotObject == s3.objects[s3'.got.key]

\* a Close has just returned
CloseReturns == s3'.writer.closes = s3.writer.closes + 1

\* the bucket reads what its kind of bucket writes: an object stored
\* compressed is read by a bucket with Compress
Readable(opts, object) == object.encoding = "gzip" => opts.compress

C24_IfNotExistsKeepsFirstWrite ==
    [][InS3 /\ s3.ifNotExists =>
          /\ \A k \in Names(s3.objects) :
                k \in Names(s3'.objects) /\ s3'.objects[k] = s3.objects[k]
          /\ CloseReturns =>
                IF s3.writer.key \in Names(s3.objects)
                THEN /\ s3'.writer.closeErr = ErrAlreadyExists
                     /\ s3'.objects = s3.objects
                ELSE /\ s3'.writer.closeErr = NilS3Err
                     /\ s3.writer.key \in Names(s3'.objects)
                     /\ s3'.objects[s3.writer.key].wrote = s3.writer.buffer]_vars

\* On an IfNotExists bucket a writer was closed, written to again and closed
\* again: the second Close failed, and the object holds what the first one
\* committed, not what the writer holds now.
C24_Witness ==
    /\ InS3 /\ s3.ifNotExists
    /\ s3.writer.state = "open"
    /\ s3.writer.closes = 2
    /\ s3.writer.closeErr = ErrAlreadyExists
    /\ Len(s3.writer.buffer) >= 1
    /\ s3.writer.key \in Names(s3.objects)
    /\ s3.objects[s3.writer.key].wrote # s3.writer.buffer

\* C25: on a bucket that expects a checksum, a Get succeeds only for an
\* object that has a stored checksum equal to the expected one, and then
\* returns the object's content; for an object without a stored checksum it
\* fails with the missing-checksum error; for an object with another
\* checksum it fails with an error that holds the expected and the received
\* checksum.
C25_ChecksumEnforced ==
    [][InS3 /\ GetReturns /\ s3.expectedChecksumSHA256 # NoChecksum =>
          /\ s3'.got.err = NilS3Err =>
                /\ GotFound
                /\ GotObject.checksum # NoChecksum
                /\ GotObject.checksum = s3.expectedChecksumSHA256
                /\ Readable(s3'.got.opts, GotObject)
                      => s3'.got.body = GotObject.wrote
          /\ GotFound /\ GotObject.checksum = s3.expectedChecksumSHA256
                => s3'.got.err = NilS3Err
          /\ GotFound /\ GotObject.checksum = NoChecksum
                => s3'.got.err.kind = "missing checksum"
          /\ (/\ GotFound
              /\ GotObject.checksum # NoChecksum
              /\ GotObject.checksum # s3.expectedChecksumSHA256)
                => /\ s3'.got.err.kind = "checksum mismatch"
                   /\ s3'.got.err.expected = s3.expectedChecksumSHA256
                   /\ s3'.got.err.received = GotObject.checksum]_vars

\* A Get on a bucket that expects the checksum of fileData has failed on an
\* object with the checksum of other data.
C25_Witness ==
    /\ InS3
    /\ s3.expectedChecksumSHA256 = Sha256(FileData0)
    /\ s3.got.called
    /\ s3.got.err.kind = "checksum mismatch"
    /\ s3.got.err.received # NoChecksum
    /\ s3.got.err.received # s3.got.err.expected

(***************************************************************************)
(* Properties of the lifecycle rules (specification RuleSpec).             *)
(***************************************************************************)
\* prefix is the empty prefix or a leading part of the file key that ends
\* with a slash
IsLeadingPrefix(prefix, fileKey) ==
    \/ prefix = << >>
    \/ /\ Len(prefix) <= Len(fileKey)
       /\ SubSeq(fileKey, 1, Len(prefix)) = prefix
       /\ prefix[Len(prefix)] = "/"

\* the places of the enabled rules whose prefix is such a prefix of the key
Candidates ==
    {i \in 1..Len(ruleCall.rules) :
        /\ ruleCall.rules[i].Status = "Enabled"
        /\ IsLeadingPrefix(ruleCall.rules[i].Prefix, ruleCall.fileKey)}

\* C26: the prefixes tried are the slash-terminated leading prefixes of the
\* file key from the longest to the shortest and then the empty one; the
\* call returns nil when no enabled rule has one of them as its Prefix, and
\* otherwise an enabled rule with such a Prefix than which no other such
\* rule has a longer one, the first in the list among those with that
\* Prefix.
C26_LongestEnabledPrefixWins ==
    ruleCall.returned =>
        /\ \A p \in KeyStrings(MaxLen + 1) :
              IsLeadingPrefix(p, ruleCall.fileKey)
                <=> \E j \in 1..Len(ruleCall.prefixes) : ruleCall.prefixes[j] = p
        /\ \A j \in 1..(Len(ruleCall.prefixes) - 1) :
              Len(ruleCall.prefixes[j]) > Len(ruleCall.prefixes[j + 1])
        /\ IF Candidates = {} THEN ruleCall.result = 0
           ELSE /\ ruleCall.result \in Candidates
                /\ \A i \in Candidates :
                      LET mine == ruleCall.rules[ruleCall.result].Prefix
                          other == ruleCall.rules[i].Prefix
                      IN  /\ Len(other) <= Len(mine)
                          /\ other = mine => ruleCall.result <= i

\* The call has returned the second rule, an enabled one with a shorter
\* prefix, although the first rule has a longer prefix of the file key: the
\* first rule is disabled.
C26_Witness ==
    /\ op = "rule" /\ ruleCall.returned
    /\ Len(ruleCall.rules) = 2
    /\ ruleCall.result = 2
    /\ ruleCall.rules[1].Status = "Disabled"
    /\ IsLeadingPrefix(ruleCall.rules[1].Prefix, ruleCall.fileKey)
    /\ Len(ruleCall.rules[1].Prefix) > Len(ruleCall.rules[2].Prefix)
    /\ Len(ruleCall.rules[2].Prefix) >= 1

====
